---- MODULE Spec2Model ----
(***************************************************************************)
(* A model of the shared infrastructure of the aoc crate: the              *)
(* de-duplicating Dictionary (rust/src/dictionary.rs), the Web of named    *)
(* nodes with its routing cache and spider searches (rust/src/web.rs), the *)
(* points of src/coords/points.rs and the Sparse and Dense 2-D grids of    *)
(* src/coords/spaces.                                                      *)
(***************************************************************************)
EXTENDS Integers, Sequences, FiniteSets, TLC

\* Identifiers are the numbers 0..MaxId.
MaxId == 3
\* std::thread::available_parallelism() answers some number in 1..MaxParallelism.
MaxParallelism == 2
\* At most MaxStale link or node changes are explored on a non-empty routing
\* cache before the cache is cleared or recomputed.
MaxStale == 1
\* The contents handed to a Dictionary of its own are the numbers 1..MaxContents.
MaxContents == 4
\* Grid coordinates are the integers -1..MaxCoord on either axis.
MaxCoord == 1
\* A Sparse grid under every operation takes a new point only while it stores
\* fewer than MaxLive.
MaxLive == 2
\* A Sparse grid that is only inserted into takes a new point only while it
\* stores fewer than MaxInserted.
MaxInserted == 3
\* The coordinate type I is a signed two's-complement integer of IntBits bits,
\* and usize and isize are as wide.
IntBits == 3
\* The table handed to Dense::from_raw has at most MaxSide rows of at most
\* MaxSide cells.
MaxSide == 2
\* A hall of mirrors has at most this many rows and columns of tiles.
HallRows == 2
HallCols == 2
\* A town has at most this many rows and columns of tiles.
TownRows == 2
TownCols == 5
\* The threads of the pool that runs the Pathfinder tasks
PoolThreads == 1
\* Tile.cost is a digit of the input: the least and the greatest a tile of the
\* towns searched here has
CheapCost == 1
DearCost == 9
\* const RUN: the steps a Pathfinder may still go straight on after a turn
RUN == 2
\* T::default(), and the values a grid cell holds.
DefaultValue == 0

Ids == 0 .. MaxId
Contents == 1 .. MaxContents
Coords == -1 .. MaxCoord
Values == {DefaultValue, 1}

\* The fallback name text of Web::new, and the names callers insert.
Blank == "<unnamed>"
Names == {Blank, "a"}

\* Option<T>: None is the empty tuple, Some(x) the one-element tuple.
None == << >>
Some(x) == << x >>

Min(S) == CHOOSE x \in S : \A y \in S : x <= y

\* BTreeMap::remove and BTreeMap::insert on a map held as a function.
MapRemove(f, k) == [x \in (DOMAIN f) \ {k} |-> f[x]]
MapPut(f, k, v) == [x \in (DOMAIN f) \cup {k} |-> IF x = k THEN v ELSE f[x]]

\* The keys of a BTreeMap / the items of a BTreeSet, in ascending order.
RECURSIVE Ascending(_)
Ascending(S) ==
    IF S = {} THEN << >>
    ELSE LET m == Min(S) IN << m >> \o Ascending(S \ {m})

VARIABLES
    names,   \* Web.names: the Dictionary<str>
    nodes,   \* Web.nodes: Identifier -> Ports, Ports: Identifier -> Reachable
    stale,   \* link or node changes since the routing cache was last empty
    last,    \* the name of the operation performed last
    dict,    \* a Dictionary<T> used on its own
    dret,    \* the argument and the answer of the last Dictionary::insert
    returned,\* every (content, Identifier) pair an insert has answered so far
    firsts,  \* the distinct contents, in the order of their first insertion
    sparse,  \* a Sparse 2-D grid: rows and bounds
    slast,   \* the name of the grid operation performed last
    inserted,\* the points handed to insert or get_or_insert_with (SpecSparseInserts)
    raw,     \* the origin and the table a caller hands to Dense::from_raw
    dense,   \* a Dense 2-D grid: origin and table
    dcall,   \* the Dense operation performed last, and whether it panicked
    pa,      \* a point in space, the receiver of axial_distance
    pb,      \* another point in space, the argument of axial_distance
    dist,    \* the last axial_distance call: its dimensions, build and outcome
    fweb,    \* the node map of a Web while find_all_routes runs on it
    fpar,    \* available_parallelism(), the size of a batch
    fpc,     \* the position of find_all_routes in its loops
    fidx,    \* idx, the position of src among the idents
    frest,   \* the idents after src not batched yet
    fgroup,  \* the current chunk of destinations
    frunning,\* the searches of the batch still in flight
    ffinished, \* the batch's searches in the order they completed
    fpaths,  \* the found paths collected, not applied yet
    fsnap,   \* the node map when the batch was spawned
    rbounds, \* what the implementor's bounds_inclusive() answers
    rcalls,  \* the print_cell calls of render, in order
    rend,    \* how render ended
    bhall,   \* LightGrid.grid: the kind of every tile
    blit,    \* every tile's BeamSet: the directions marked in it
    bstart,  \* the beam handed to LightGrid::walk
    bpc,     \* the position of LightGrid::walk
    bwalkers,\* the beams walking in the scope, each with its number of workers
    bid,     \* id, the counter of the workers
    bpassed, \* per tile and direction, the inserts that answered false
    bsteps,  \* the forward steps taken by all the workers
    bmet,    \* the inserts that answered true: a worker met a mark and stopped
    ctown,   \* Coldtown.grid: the cost of every tile
    cmins,   \* every tile's n, s, w and e: the least score that came by in a direction
    cbest,   \* Coldtown.best_score
    cfinders,\* the Pathfinders a thread of the pool is running, each with its number
    cqueue,  \* the Pathfinders spawned into the scope that no thread has taken up
             \* yet, in the order they were spawned
    cpc       \* the position of Coldtown::part_1

webVars == << names, nodes, stale, last >>
dictVars == << dict, dret, returned, firsts >>
sparseVars == << sparse, slast, inserted >>
denseVars == << raw, dense, dcall >>
pointVars == << pa, pb, dist >>
routeVars == << fweb, fpar, fpc, fidx, frest, fgroup, frunning, ffinished, fpaths, fsnap >>
renderVars == << rbounds, rcalls, rend >>
beamVars == << bhall, blit, bstart, bpc, bwalkers, bid, bpassed, bsteps, bmet >>
townVars == << ctown, cmins, cbest, cfinders, cqueue, cpc >>
vars == << webVars, dictVars, sparseVars, denseVars, pointVars, routeVars, renderVars, beamVars, townVars >>

---------------------------------------------------------------------------
(* Dictionary *)

\* Dictionary::new
Dictionary_new == [cached |-> << >>, idents |-> << >>]

\* Dictionary::len
Dictionary_len(d) == Cardinality(DOMAIN d.cached)

\* An insert that never consults the cache of contents already held
Dictionary_insert_always(d, value) ==
    LET next_ident == Dictionary_len(d) IN
    [dict  |-> [cached |-> MapPut(d.cached, value, next_ident),
                idents |-> MapPut(d.idents, next_ident, value)],
     ident |-> next_ident]

\* An insert that numbers new contents from one
Dictionary_insert_from_one(d, value) ==
    LET next_ident == Dictionary_len(d) + 1 IN
    IF value \in DOMAIN d.cached
    THEN [dict |-> d, ident |-> d.cached[value]]
    ELSE [dict  |-> [cached |-> MapPut(d.cached, value, next_ident),
                     idents |-> MapPut(d.idents, next_ident, value)],
          ident |-> next_ident]

\* An insert that keys the reverse map by the length after the insertion
Dictionary_insert_late_len(d, value) ==
    LET next_ident == Dictionary_len(d) IN
    IF value \in DOMAIN d.cached
    THEN [dict |-> d, ident |-> d.cached[value]]
    ELSE [dict  |-> [cached |-> MapPut(d.cached, value, next_ident),
                     idents |-> MapPut(d.idents, next_ident + 1, value)],
          ident |-> next_ident]

\* Dictionary::insert: the dictionary afterwards, and the Identifier returned.
Dictionary_insert(d, value) ==
    LET next_ident == Dictionary_len(d) IN
    IF value \in DOMAIN d.cached
    THEN [dict |-> d, ident |-> d.cached[value]]
    ELSE [dict  |-> [cached |-> MapPut(d.cached, value, next_ident),
                     idents |-> MapPut(d.idents, next_ident, value)],
          ident |-> next_ident]

\* Dictionary::lookup_value
Dictionary_lookup_value(d, value) ==
    IF value \in DOMAIN d.cached THEN Some(d.cached[value]) ELSE None

\* Dictionary::contains
Dictionary_contains(d, value) == value \in DOMAIN d.cached

\* Dictionary::lookup
Dictionary_lookup(d, ident) ==
    IF ident \in DOMAIN d.idents THEN Some(d.idents[ident]) ELSE None

---------------------------------------------------------------------------
(* Web: structure *)

\* Ports::default
Ports_new == << >>

\* Web::new: the dictionary holds the blank name
Web_new_names == Dictionary_insert(Dictionary_new, Blank).dict

\* Web::get_name
Web_get_name(d, ident) ==
    LET found == Dictionary_lookup(d, ident) IN
    IF found = None THEN Blank ELSE found[1]

\* Web::get_node: Some(ident) when the identifier names a node
Web_get_node(n, ident) == IF ident \in DOMAIN n THEN Some(ident) ELSE None

\* self.nodes.entry(a).or_default().entry(b).or_default()
EntryOrDefault(n, a, b) ==
    LET ports == IF a \in DOMAIN n THEN n[a] ELSE Ports_new IN
    MapPut(n, a, IF b \in DOMAIN ports THEN ports ELSE MapPut(ports, b, {}))

\* Web::insert, on the node map
Web_insert(n, ident) == IF ident \in DOMAIN n THEN n ELSE MapPut(n, ident, Ports_new)

\* remove without the loop over the other nodes' ports
Web_remove_unscrubbed(n, ident) == MapRemove(n, ident)

\* Web::remove
Web_remove(n, ident) ==
    LET kept == MapRemove(n, ident) IN
    [i \in DOMAIN kept |-> MapRemove(kept[i], ident)]

\* Web::create_link
Web_create_link(n, one, two) == EntryOrDefault(EntryOrDefault(n, one, two), two, one)

\* Web::remove_link_one_way: the port src -> dst is deleted; the pruning of the
\* other nodes' tables is commented out in the source.
Web_remove_link_one_way(n, src, dst) ==
    IF src \notin DOMAIN n THEN n
    ELSE MapPut(n, src, MapRemove(n[src], dst))

\* remove_link without its second remove_link_one_way
Web_remove_link_half(n, one, two) == Web_remove_link_one_way(n, one, two)

\* Web::remove_link
Web_remove_link(n, one, two) ==
    Web_remove_link_one_way(Web_remove_link_one_way(n, one, two), two, one)

\* clear_routes clearing the link map of every node instead of its tables
Web_clear_routes_links(n) == [i \in DOMAIN n |-> Ports_new]

\* Web::clear_routes
Web_clear_routes(n) == [i \in DOMAIN n |-> [j \in DOMAIN n[i] |-> {}]]

\* neighbors in descending order
Node_neighbors_rev(n, id) ==
    LET up == Ascending(DOMAIN n[id]) IN [i \in 1 .. Len(up) |-> up[Len(up) + 1 - i]]

\* Node::neighbors, in the ports table's order
Node_neighbors(n, id) == Ascending(DOMAIN n[id])

\* A route_to that answers the target itself whenever some port serves it
Node_route_to_target(n, id, ident) ==
    LET hits == {i \in DOMAIN n[id] : i = ident \/ ident \in n[id][i]} IN
    IF hits = {} THEN None ELSE Some(ident)

\* Node::route_to: the first port that is, or that serves, the target
Node_route_to(n, id, ident) ==
    LET hits == {i \in DOMAIN n[id] : i = ident \/ ident \in n[id][i]} IN
    IF hits = {} THEN None ELSE Some(Min(hits))

---------------------------------------------------------------------------
(* Spider: the generation search over a FIFO queue *)

\* Spider::new: fails when the start is not a node of the web
Spider_new(n, start) ==
    IF Web_get_node(n, start) = None THEN None
    ELSE Some([node |-> start, path |-> << >>])

\* The loop over the neighbours with push_front in place of push_back: the
\* queue becomes a stack.
RECURSIVE SpawnChildrenFront(_, _, _, _)
SpawnChildrenFront(n, neighbors, path, spawner) ==
    IF neighbors = << >> THEN spawner
    ELSE SpawnChildrenFront(n, Tail(neighbors), path,
            IF Web_get_node(n, Head(neighbors)) = None THEN spawner
            ELSE << [node |-> Head(neighbors), path |-> path] >> \o spawner)

\* The loop over the neighbours pushing every child twice
RECURSIVE SpawnChildrenTwice(_, _, _, _)
SpawnChildrenTwice(n, neighbors, path, spawner) ==
    IF neighbors = << >> THEN spawner
    ELSE SpawnChildrenTwice(n, Tail(neighbors), path,
            IF Web_get_node(n, Head(neighbors)) = None THEN spawner
            ELSE spawner \o << [node |-> Head(neighbors), path |-> path],
                               [node |-> Head(neighbors), path |-> path] >>)

\* The loop over self.node.neighbors(): one child per neighbour that is a node
RECURSIVE SpawnChildren(_, _, _, _)
SpawnChildren(n, neighbors, path, spawner) ==
    IF neighbors = << >> THEN spawner
    ELSE SpawnChildren(n, Tail(neighbors), path,
            IF Web_get_node(n, Head(neighbors)) = None THEN spawner
            ELSE Append(spawner, [node |-> Head(neighbors), path |-> path]))

\* Spider::crawl_seq: one generation of one spider. found is the returned
\* path; forked tells whether the spider explored all of its neighbours.
Spider_crawl_seq(n, goal, spider, spawner, crawled) ==
    IF spider.node \in crawled
    THEN [found |-> None, spawner |-> spawner, crawled |-> crawled, forked |-> FALSE]
    ELSE
      LET seen == crawled \cup {spider.node}
          path == Append(spider.path, spider.node)
          next == Node_route_to(n, spider.node, goal)
      IN  IF spider.node = goal
          THEN [found |-> Some(path), spawner |-> spawner, crawled |-> seen,
                forked |-> FALSE]
          ELSE IF next # None /\ Web_get_node(n, next[1]) # None
          THEN [found |-> None,
                spawner |-> Append(spawner, [node |-> next[1], path |-> path]),
                crawled |-> seen, forked |-> FALSE]
          ELSE [found |-> None,
                spawner |-> SpawnChildren(n, Node_neighbors(n, spider.node), path, spawner),
                crawled |-> seen, forked |-> TRUE]

\* The 'crawler loop of Web::find_route. spawned counts the spiders ever
\* pushed on the queue, forks the spiders that explored all their neighbours.
RECURSIVE CrawlLoop(_, _, _, _, _, _)
CrawlLoop(n, goal, queue, seen, spawned, forks) ==
    IF queue = << >>
    THEN [path |-> None, spawned |-> spawned, forks |-> forks]
    ELSE
      LET r == Spider_crawl_seq(n, goal, Head(queue), Tail(queue), seen)
          pushed == spawned + Len(r.spawner) - Len(Tail(queue))
          forked == forks + (IF r.forked THEN 1 ELSE 0)
      IN  IF r.found # None
          THEN [path |-> r.found, spawned |-> pushed, forks |-> forked]
          ELSE CrawlLoop(n, goal, r.spawner, r.crawled, pushed, forked)

\* find_route answering an empty path when the start is no node
Web_find_route_run_empty(n, src, dst) ==
    IF Spider_new(n, src) = None
    THEN [path |-> Some(<< >>), spawned |-> 0, forks |-> 0]
    ELSE CrawlLoop(n, dst, << Spider_new(n, src)[1] >>, {}, 1, 0)

\* Web::find_route with the counts of its search
Web_find_route_run(n, src, dst) ==
    IF Spider_new(n, src) = None
    THEN [path |-> None, spawned |-> 0, forks |-> 0]
    ELSE CrawlLoop(n, dst, << Spider_new(n, src)[1] >>, {}, 1, 0)

\* Web::find_route
Web_find_route(n, src, dst) == Web_find_route_run(n, src, dst).path

\* Spider::find_reachable_seq
Spider_find_reachable_seq(n, spider, spawner, crawled) ==
    IF spider.node \in crawled
    THEN [spawner |-> spawner, crawled |-> crawled]
    ELSE [spawner |-> SpawnChildren(n, Node_neighbors(n, spider.node), spider.path, spawner),
          crawled |-> crawled \cup {spider.node}]

\* The loop of Web::count_reachable. spawned counts the spiders ever pushed
\* on the queue.
RECURSIVE ReachLoop(_, _, _, _)
ReachLoop(n, queue, seen, spawned) ==
    IF queue = << >> THEN [seen |-> seen, spawned |-> spawned]
    ELSE LET r == Spider_find_reachable_seq(n, Head(queue), Tail(queue), seen)
         IN  ReachLoop(n, r.spawner, r.crawled,
                       spawned + Len(r.spawner) - Len(Tail(queue)))

\* Web::count_reachable with the counts of its flood
Web_count_reachable_run(n, ident) ==
    IF Spider_new(n, ident) = None THEN [seen |-> {}, spawned |-> 0]
    ELSE ReachLoop(n, << Spider_new(n, ident)[1] >>, {}, 1)

\* count_reachable leaving the start itself out of the count
Web_count_reachable_others(n, ident) ==
    IF Spider_new(n, ident) = None THEN 0
    ELSE Cardinality(Web_count_reachable_run(n, ident).seen) - 1

\* Web::count_reachable
Web_count_reachable(n, ident) ==
    Cardinality(Web_count_reachable_run(n, ident).seen)

---------------------------------------------------------------------------
(* Web: the routing cache *)

\* mark_path with the two ends of the port swapped: the remote nodes are
\* recorded in next's table under the port back to current.
RECURSIVE Web_mark_path_swapped(_, _)
Web_mark_path_swapped(n, path) ==
    IF Len(path) < 2 THEN n
    ELSE
      LET current == path[1]
          next    == path[2]
          remote  == {path[i] : i \in 3 .. Len(path)}
          made    == EntryOrDefault(n, next, current)
          marked  == MapPut(made, next,
                        MapPut(made[next], current, made[next][current] \cup remote))
      IN  Web_mark_path_swapped(marked, Tail(path))

\* Web::mark_path
RECURSIVE Web_mark_path(_, _)
Web_mark_path(n, path) ==
    IF Len(path) < 2 THEN n
    ELSE
      LET current == path[1]
          next    == path[2]
          remote  == {path[i] : i \in 3 .. Len(path)}
          made    == EntryOrDefault(n, current, next)
          marked  == MapPut(made, current,
                        MapPut(made[current], next, made[current][next] \cup remote))
      IN  Web_mark_path(marked, Tail(path))

Reverse(s) == [i \in 1 .. Len(s) |-> s[Len(s) + 1 - i]]

\* The loop over a batch's paths without path.reverse() and its mark_path
RECURSIVE MarkPathsForwards(_, _)
MarkPathsForwards(n, paths) ==
    IF paths = << >> THEN n
    ELSE MarkPathsForwards(Web_mark_path(n, Head(paths)), Tail(paths))

\* The body of the loop over one batch's collected paths: each path is marked
\* forwards and backwards.
RECURSIVE MarkPaths(_, _)
MarkPaths(n, paths) ==
    IF paths = << >> THEN n
    ELSE MarkPaths(Web_mark_path(Web_mark_path(n, Head(paths)), Reverse(Head(paths))),
                   Tail(paths))

\* One batch: every search of the group runs on the same web; par_bridge
\* collects the found paths in the order the searches complete, which is the
\* order of the group's positions in order.
BatchPaths(n, src, group, order) ==
    LET turns == SelectSeq([i \in 1 .. Len(order) |-> order[i]],
                           LAMBDA k : k <= Len(group))
        found == [i \in 1 .. Len(turns) |-> Web_find_route(n, src, group[turns[i]])]
        some  == SelectSeq(found, LAMBDA p : p # None)
    IN  [i \in 1 .. Len(some) |-> some[i][1]]

\* The completion orders of a batch of parallelism searches
Orders(parallelism) ==
    {[i \in 1 .. parallelism |-> f[i]] : f \in Permutations(1 .. parallelism)}

\* idents[idx + 1 ..].chunks(parallelism), batch after batch
RECURSIVE RouteGroups(_, _, _, _, _)
RouteGroups(n, src, rest, parallelism, order) ==
    IF rest = << >> THEN n
    ELSE
      LET size  == IF Len(rest) < parallelism THEN Len(rest) ELSE parallelism
          group == SubSeq(rest, 1, size)
      IN  RouteGroups(MarkPaths(n, BatchPaths(n, src, group, order)), src,
                      SubSeq(rest, size + 1, Len(rest)), parallelism, order)

\* The loop over idents.iter().enumerate()
RECURSIVE RouteSources(_, _, _, _, _)
RouteSources(n, idents, idx, parallelism, order) ==
    IF idx > Len(idents) THEN n
    ELSE RouteSources(
            RouteGroups(n, idents[idx], SubSeq(idents, idx + 1, Len(idents)),
                        parallelism, order),
            idents, idx + 1, parallelism, order)

\* Web::find_all_routes
Web_find_all_routes(n, parallelism, order) ==
    RouteSources(Web_clear_routes(n), Ascending(DOMAIN n), 1, parallelism, order)

---------------------------------------------------------------------------
(* Points *)

\* Cartesian2D::new; the derived ordering compares y first, then x
Point2D_new(x, y) == [y |-> y, x |-> x]

Points == {Point2D_new(x, y) : x \in Coords, y \in Coords}

\* Ord::min and Ord::max of two coordinates
MinOf(a, b) == IF a <= b THEN a ELSE b
MaxOf(a, b) == IF a >= b THEN a ELSE b

\* Cartesian2D::min_unifying
Point2D_min_unifying(self, other) ==
    [y |-> MinOf(self.y, other.y), x |-> MinOf(self.x, other.x)]

\* Cartesian2D::max_unifying
Point2D_max_unifying(self, other) ==
    [y |-> MaxOf(self.y, other.y), x |-> MaxOf(self.x, other.x)]

---------------------------------------------------------------------------
(* Machine integers *)

RECURSIVE Pow2(_)
Pow2(n) == IF n = 0 THEN 1 ELSE 2 * Pow2(n - 1)

\* I::MIN and I::MAX, and every value and point of the coordinate type
IntMin == -Pow2(IntBits - 1)
IntMax == Pow2(IntBits - 1) - 1
Ints == IntMin .. IntMax
AllPoints == {Point2D_new(x, y) : x \in Ints, y \in Ints}

\* A build either checks integer overflow (the dev profile) or wraps (release).
Builds == BOOLEAN

\* The outcome of a call: a value, or a panic
Ok(v) == [panic |-> FALSE, value |-> v]
Panicked == [panic |-> TRUE]

\* Two's-complement wrapping into the coordinate type
Wrap(v) == ((v - IntMin) % Pow2(IntBits)) + IntMin

\* a - b and a + b in the coordinate type
Int_sub(a, b, overflow_checks) ==
    IF a - b \in Ints THEN Ok(a - b)
    ELSE IF overflow_checks THEN Panicked ELSE Ok(Wrap(a - b))

Int_add(a, b, overflow_checks) ==
    IF a + b \in Ints THEN Ok(a + b)
    ELSE IF overflow_checks THEN Panicked ELSE Ok(Wrap(a + b))

\* funty's as_usize: the `as` cast of a signed value to usize
as_usize(v) == v % Pow2(IntBits)

\* Sub for Cartesian2D: self.x -= rhs.x; self.y -= rhs.y
Point2D_sub(self, rhs, overflow_checks) ==
    LET x == Int_sub(self.x, rhs.x, overflow_checks)
        y == Int_sub(self.y, rhs.y, overflow_checks)
    IN  IF x.panic \/ y.panic THEN Panicked
        ELSE Ok([y |-> y.value, x |-> x.value])

\* Cartesian3D::new; ordered by z, then y, then x
Point3D_new(x, y, z) == [z |-> z, y |-> y, x |-> x]

\* Cartesian3D::ZERO
Point3D_ZERO == Point3D_new(0, 0, 0)

\* A pair left in the order it was given
Unsorted(a, b) == << a, b >>

\* [a, b].tap_mut(|xs| xs.sort())
Sorted(a, b) == << MinOf(a, b), MaxOf(a, b) >>

\* The sum of the differences u[2] - u[1] of a sequence of pairs, left to right
RECURSIVE SumOfSpans(_, _, _)
SumOfSpans(spans, acc, overflow_checks) ==
    IF acc.panic \/ spans = << >> THEN acc
    ELSE LET span == Int_sub(spans[1][2], spans[1][1], overflow_checks) IN
         IF span.panic THEN Panicked
         ELSE SumOfSpans(Tail(spans),
                         Int_add(acc.value, span.value, overflow_checks),
                         overflow_checks)

\* Cartesian2D::axial_distance: (x2 - x1) + (y2 - y1) of the sorted pairs
Point2D_axial_distance(self, other, overflow_checks) ==
    LET xs == Sorted(self.x, other.x)
        ys == Sorted(self.y, other.y)
        first == Int_sub(xs[2], xs[1], overflow_checks)
    IN  SumOfSpans(<< ys >>, first, overflow_checks)

\* Cartesian3D::axial_distance: (x2 - x1) + (y2 - y1) + (z2 - z1)
Point3D_axial_distance(self, other, overflow_checks) ==
    LET xs == Sorted(self.x, other.x)
        ys == Sorted(self.y, other.y)
        zs == Sorted(self.z, other.z)
        first == Int_sub(xs[2], xs[1], overflow_checks)
    IN  SumOfSpans(<< ys, zs >>, first, overflow_checks)

---------------------------------------------------------------------------
(* The Sparse 2-D grid *)

\* Cartesian2D::new: no row, no bounding box
Sparse_new == [rows |-> << >>, bounds |-> None]

\* Cartesian2D::iter, as the set of points that hold a live value
Sparse_points(s) ==
    UNION {{Point2D_new(x, y) : x \in DOMAIN s.rows[y]} : y \in DOMAIN s.rows}

\* Cartesian2D::is_empty
Sparse_is_empty(s) ==
    DOMAIN s.rows = {} \/ \A y \in DOMAIN s.rows : DOMAIN s.rows[y] = {}

\* Cartesian2D::len
Sparse_len(s) == Cardinality(Sparse_points(s))

\* Cartesian2D::dimensions: a scan of the live points
Sparse_dimensions(s) ==
    LET pts == Sparse_points(s) IN
    IF pts = {} THEN None
    ELSE Some(<< [y |-> Min({pt.y : pt \in pts}), x |-> Min({pt.x : pt \in pts})],
                 [y |-> -Min({-pt.y : pt \in pts}), x |-> -Min({-pt.x : pt \in pts})] >>)

\* Cartesian2D::contains
Sparse_contains(s, point) ==
    IF point.y \in DOMAIN s.rows THEN point.x \in DOMAIN s.rows[point.y] ELSE FALSE

\* Cartesian2D::encloses
Sparse_encloses(s, point) ==
    IF s.bounds = None THEN FALSE
    ELSE LET min == s.bounds[1][1]
             max == s.bounds[1][2]
         IN  (min.x <= point.x /\ point.x <= max.x)
             /\ (min.y <= point.y /\ point.y <= max.y)

\* Cartesian2D::get
Sparse_get(s, point) ==
    IF Sparse_contains(s, point) THEN Some(s.rows[point.y][point.x]) ELSE None

\* self.rows.entry(y).or_default()
RowOrDefault(s, y) == IF y \in DOMAIN s.rows THEN s.rows[y] ELSE << >>

\* Cartesian2D::get_mut, and a write of value through the reference it gives
Sparse_get_mut(s, point, value) ==
    IF Sparse_contains(s, point)
    THEN [s EXCEPT !.rows = MapPut(s.rows, point.y,
                                   MapPut(s.rows[point.y], point.x, value))]
    ELSE s

\* A get_or_insert_with that sets the bounding box at the first insertion only
Sparse_get_or_insert_with_first(s, point, fill) ==
    LET row == RowOrDefault(s, point.y)
        out == IF point.x \in DOMAIN row THEN row[point.x] ELSE fill
    IN  [rows   |-> MapPut(s.rows, point.y, MapPut(row, point.x, out)),
         bounds |-> IF s.bounds = None THEN Some(<< point, point >>) ELSE s.bounds]

\* Cartesian2D::get_or_insert_with
Sparse_get_or_insert_with(s, point, fill) ==
    LET row == RowOrDefault(s, point.y)
        out == IF point.x \in DOMAIN row THEN row[point.x] ELSE fill
    IN  [rows   |-> MapPut(s.rows, point.y, MapPut(row, point.x, out)),
         bounds |-> IF s.bounds = None THEN Some(<< point, point >>)
                    ELSE Some(<< Point2D_min_unifying(point, s.bounds[1][1]),
                                 Point2D_max_unifying(point, s.bounds[1][2]) >>)]

\* Cartesian2D::insert
Sparse_insert(s, point, value) == Sparse_get_or_insert_with(s, point, value)

\* A remove that shrinks the bounding box to the points left
Sparse_remove_shrinking(s, point) ==
    LET rest == IF point.y \in DOMAIN s.rows
                THEN MapPut(s.rows, point.y, MapRemove(s.rows[point.y], point.x))
                ELSE s.rows
    IN  [rows |-> rest, bounds |-> Sparse_dimensions([s EXCEPT !.rows = rest])]

\* Cartesian2D::remove
Sparse_remove(s, point) ==
    IF point.y \in DOMAIN s.rows
    THEN [s EXCEPT !.rows = MapPut(s.rows, point.y,
                                   MapRemove(s.rows[point.y], point.x))]
    ELSE s

\* Cartesian2D::update_default; func is the FnOnce(&mut T), as a map of values
Sparse_update_default(s, point, func) ==
    LET row == RowOrDefault(s, point.y)
        old == IF point.x \in DOMAIN row THEN row[point.x] ELSE DefaultValue
    IN  [s EXCEPT !.rows = MapPut(s.rows, point.y, MapPut(row, point.x, func[old]))]

\* Cartesian2D::clear
Sparse_clear(s) == Sparse_new

\* Cartesian2D::into_iter: the live (point, value) pairs, row-major
Sparse_into_iter(s) ==
    LET RECURSIVE Cells(_, _), Rows(_)
        Cells(y, xs) ==
            IF xs = << >> THEN << >>
            ELSE << << Point2D_new(xs[1], y), s.rows[y][xs[1]] >> >>
                 \o Cells(y, Tail(xs))
        Rows(ys) ==
            IF ys = << >> THEN << >>
            ELSE Cells(ys[1], Ascending(DOMAIN s.rows[ys[1]])) \o Rows(Tail(ys))
    IN  Rows(Ascending(DOMAIN s.rows))

\* FromIterator for Cartesian2D: a fold of insert over the pairs
RECURSIVE Sparse_from_iter_fold(_, _)
Sparse_from_iter_fold(this, src) ==
    IF src = << >> THEN this
    ELSE Sparse_from_iter_fold(Sparse_insert(this, src[1][1], src[1][2]), Tail(src))

Sparse_from_iter(src) == Sparse_from_iter_fold(Sparse_new, src)

---------------------------------------------------------------------------
(* The Dense 2-D grid *)

\* Cartesian2D::default: origin (0, 0) and no row
Dense_new == [origin |-> Point2D_new(0, 0), table |-> << >>]

\* A from_raw without its assertion
Dense_from_raw_unchecked(origin, table) == Ok([origin |-> origin, table |-> table])

\* Cartesian2D::from_raw
Dense_from_raw(origin, table) ==
    IF table # << >> /\ ~(\A i \in DOMAIN table : Len(table[i]) = Len(table[1]))
    THEN Panicked
    ELSE Ok([origin |-> origin, table |-> table])

\* Cartesian2D::clear
Dense_clear(d) == Dense_new

\* Cartesian2D::is_empty
Dense_is_empty(d) ==
    d.table = << >> \/ \A i \in DOMAIN d.table : d.table[i] = << >>

\* Cartesian2D::in_bounds
Dense_in_bounds(d, point, overflow_checks) ==
    IF Dense_is_empty(d) THEN Ok(FALSE)
    ELSE LET shifted == Point2D_sub(point, d.origin, overflow_checks) IN
         IF shifted.panic THEN Panicked
         ELSE Ok(/\ as_usize(shifted.value.y) < Len(d.table)
                 /\ as_usize(shifted.value.x) < Len(d.table[1]))

\* Index<Point2D> for Cartesian2D
Dense_index(d, index, overflow_checks) ==
    LET shifted == Point2D_sub(index, d.origin, overflow_checks) IN
    IF shifted.panic THEN Panicked
    ELSE LET row == as_usize(shifted.value.y)
             col == as_usize(shifted.value.x)
         IN  IF row >= Len(d.table) THEN Panicked
             ELSE IF col >= Len(d.table[row + 1]) THEN Panicked
             ELSE Ok(d.table[row + 1][col + 1])

\* IndexMut<Point2D> for Cartesian2D, and the assignment of value to the cell
Dense_index_mut(d, index, value, overflow_checks) ==
    LET shifted == Point2D_sub(index, d.origin, overflow_checks) IN
    IF shifted.panic THEN Panicked
    ELSE LET row == as_usize(shifted.value.y)
             col == as_usize(shifted.value.x)
         IN  IF row >= Len(d.table) THEN Panicked
             ELSE IF col >= Len(d.table[row + 1]) THEN Panicked
             ELSE Ok([d EXCEPT !.table[row + 1][col + 1] = value])

\* Axis::new(start, length) and the items the Axis yields: bgn up to end - 1
Axis_new(start, length, overflow_checks) ==
    LET end == Int_add(start, length, overflow_checks) IN
    IF end.panic THEN Panicked ELSE Ok([bgn |-> start, end |-> end.value])

Axis_items(axis) ==
    IF axis.bgn >= axis.end THEN << >>
    ELSE [i \in 1 .. (axis.end - axis.bgn) |-> axis.bgn + i - 1]

\* Cartesian2D::into_iter: every cell of the table with its point, row-major
Dense_into_iter(d, overflow_checks) ==
    LET ys == Len(d.table)
        xs == IF d.table = << >> THEN 0 ELSE Len(d.table[1])
        rowAxis == Axis_new(d.origin.y, ys, overflow_checks)
        colAxis == Axis_new(d.origin.x, xs, overflow_checks)
    IN  IF rowAxis.panic THEN Panicked
        ELSE IF ys > 0 /\ Axis_items(rowAxis.value) # << >> /\ colAxis.panic
        THEN Panicked
        ELSE LET rowItems == Axis_items(rowAxis.value)
                 colItems == Axis_items(colAxis.value)
                 RECURSIVE Cells(_, _), Rows(_)
                 Cells(r, c) ==
                    IF c > Len(d.table[r]) \/ c > Len(colItems) THEN << >>
                    ELSE << << Point2D_new(colItems[c], rowItems[r]),
                               d.table[r][c] >> >> \o Cells(r, c + 1)
                 Rows(r) ==
                    IF r > ys \/ r > Len(rowItems) THEN << >>
                    ELSE Cells(r, 1) \o Rows(r + 1)
             IN  Ok(Rows(1))

\* this[point] = value for every live pair of the sparse grid
RECURSIVE Dense_fill(_, _, _)
Dense_fill(this, pairs, overflow_checks) ==
    IF this.panic \/ pairs = << >> THEN this
    ELSE Dense_fill(
            Dense_index_mut(this.value, pairs[1][1], pairs[1][2], overflow_checks),
            Tail(pairs), overflow_checks)

\* From<Sparse2D> for Cartesian2D: a table of defaults over dimensions(),
\* then every live value written into it. A Vec holds at most isize::MAX cells.
Dense_from_sparse(s, overflow_checks) ==
    LET dims == Sparse_dimensions(s) IN
    IF dims = None THEN Ok(Dense_new)
    ELSE LET origin == dims[1][1]
             extent == dims[1][2]
             dim == Point2D_sub(extent, origin, overflow_checks)
         IN  IF dim.panic THEN Panicked
             ELSE LET cols == as_usize(dim.value.x) + 1
                      rows == as_usize(dim.value.y) + 1
                  IN  IF cols > IntMax \/ rows > IntMax THEN Panicked
                      ELSE Dense_fill(
                              Ok([origin |-> origin,
                                  table  |-> [r \in 1 .. rows |->
                                                [c \in 1 .. cols |-> DefaultValue]]]),
                              Sparse_into_iter(s), overflow_checks)

---------------------------------------------------------------------------
(* The web as a state machine *)

\* No port of any node serves a remote node
CacheEmpty(n) == \A i \in DOMAIN n : \A j \in DOMAIN n[i] : n[i][j] = {}

\* A change of nodes or links is explored on an empty cache, or as one of the
\* first MaxStale changes after the cache was filled.
MayChange == CacheEmpty(nodes) \/ stale < MaxStale

Changed(n) == IF CacheEmpty(n) THEN 0 ELSE stale + 1

\* Web::new
WebInit ==
    /\ names = Web_new_names
    /\ nodes = << >>
    /\ stale = 0
    /\ last = "new"

\* Dictionary::new, before any insert was answered
DictInit ==
    /\ dict = Dictionary_new
    /\ dret = None
    /\ returned = {}
    /\ firsts = << >>

\* Sparse2D::new, before any point was inserted
SparseInit ==
    /\ sparse = Sparse_new
    /\ slast = "new"
    /\ inserted = {}

\* Dense::new, with no table to hand to from_raw
DenseIdle ==
    /\ raw = [origin |-> Point2D_new(0, 0), table |-> << >>]
    /\ dense = Dense_new
    /\ dcall = [op |-> "new", panic |-> FALSE]

\* Two points at Cartesian3D::ZERO, and no distance asked for
PointsIdle ==
    /\ pa = Point3D_ZERO
    /\ pb = Point3D_ZERO
    /\ dist = None

\* No find_all_routes is under way.
RoutesIdle ==
    /\ fweb = << >>
    /\ fpar = 1
    /\ fpc = "idle"
    /\ fidx = 0
    /\ frest = << >>
    /\ fgroup = << >>
    /\ frunning = {}
    /\ ffinished = << >>
    /\ fpaths = << >>
    /\ fsnap = << >>

\* No grid has been rendered.
RenderIdle ==
    /\ rbounds = << >>
    /\ rcalls = << >>
    /\ rend = "idle"

\* No beam has been walked.
BeamsIdle ==
    /\ bhall = << >>
    /\ blit = << >>
    /\ bstart = << >>
    /\ bpc = "idle"
    /\ bwalkers = << >>
    /\ bid = 1
    /\ bpassed = << >>
    /\ bsteps = 0
    /\ bmet = 0

\* No town has been searched.
TownIdle ==
    /\ ctown = << >>
    /\ cmins = << >>
    /\ cbest = 0
    /\ cfinders = << >>
    /\ cqueue = << >>
    /\ cpc = "idle"

\* Every structure as its constructor leaves it
Init ==
    /\ WebInit
    /\ DictInit
    /\ SparseInit
    /\ DenseIdle
    /\ PointsIdle
    /\ RoutesIdle
    /\ RenderIdle
    /\ BeamsIdle
    /\ TownIdle

\* Web::insert
Insert(name) ==
    LET r == Dictionary_insert(names, name) IN
    /\ MayChange
    /\ r.ident \in Ids
    /\ names' = r.dict
    /\ nodes' = Web_insert(nodes, r.ident)
    /\ stale' = Changed(nodes')
    /\ last' = "insert"

\* Web::remove
Remove(ident) ==
    /\ MayChange
    /\ nodes' = Web_remove(nodes, ident)
    /\ stale' = Changed(nodes')
    /\ last' = "remove"
    /\ UNCHANGED names

\* Web::create_link
CreateLink(one, two) ==
    /\ MayChange
    /\ nodes' = Web_create_link(nodes, one, two)
    /\ stale' = Changed(nodes')
    /\ last' = "create_link"
    /\ UNCHANGED names

\* Web::remove_link
RemoveLink(one, two) ==
    /\ MayChange
    /\ nodes' = Web_remove_link(nodes, one, two)
    /\ stale' = Changed(nodes')
    /\ last' = "remove_link"
    /\ UNCHANGED names

\* Web::clear_routes
ClearRoutes ==
    /\ nodes' = Web_clear_routes(nodes)
    /\ stale' = 0
    /\ last' = "clear_routes"
    /\ UNCHANGED names

\* Web::find_all_routes
FindAllRoutes(parallelism, order) ==
    /\ nodes' = Web_find_all_routes(nodes, parallelism, order)
    /\ stale' = 0
    /\ last' = "find_all_routes"
    /\ UNCHANGED names

\* The operations of a Web; nothing else is touched by them.
Next ==
    \/ \E name \in Names : Insert(name) /\ UNCHANGED << dictVars, sparseVars, denseVars, pointVars, routeVars, renderVars, beamVars, townVars >>
    \/ \E ident \in Ids : Remove(ident) /\ UNCHANGED << dictVars, sparseVars, denseVars, pointVars, routeVars, renderVars, beamVars, townVars >>
    \/ \E one, two \in Ids : CreateLink(one, two) /\ UNCHANGED << dictVars, sparseVars, denseVars, pointVars, routeVars, renderVars, beamVars, townVars >>
    \/ \E one, two \in Ids : RemoveLink(one, two) /\ UNCHANGED << dictVars, sparseVars, denseVars, pointVars, routeVars, renderVars, beamVars, townVars >>
    \/ ClearRoutes /\ UNCHANGED << dictVars, sparseVars, denseVars, pointVars, routeVars, renderVars, beamVars, townVars >>
    \/ \E parallelism \in 1 .. MaxParallelism :
          \E perm \in Orders(parallelism) :
             FindAllRoutes(parallelism, perm) /\ UNCHANGED << dictVars, sparseVars, denseVars, pointVars, routeVars, renderVars, beamVars, townVars >>

Spec == Init /\ [][Next]_vars

---------------------------------------------------------------------------
(* A Dictionary as a state machine *)

\* Dictionary::insert, with the record of what it answered
DictInsert(value) ==
    LET r == Dictionary_insert(dict, value) IN
    /\ dict' = r.dict
    /\ dret' = Some([value |-> value, ident |-> r.ident])
    /\ returned' = returned \cup {<< value, r.ident >>}
    /\ firsts' = IF \E k \in DOMAIN firsts : firsts[k] = value
                 THEN firsts ELSE Append(firsts, value)

NextDict == \E value \in Contents : DictInsert(value) /\ UNCHANGED << webVars, sparseVars, denseVars, pointVars, routeVars, renderVars, beamVars, townVars >>

SpecDict == Init /\ [][NextDict]_vars

---------------------------------------------------------------------------
(* A Sparse 2-D grid as a state machine *)

\* The grid may take point: it stores it already, or has room for one more
MayStore(point) == Sparse_contains(sparse, point) \/ Sparse_len(sparse) < MaxLive

\* The same for a grid that is only inserted into
MayInsert(point) ==
    Sparse_contains(sparse, point) \/ Sparse_len(sparse) < MaxInserted

\* The transform functions handed to update_default
Funcs == [Values -> Values]

\* Sparse2D::insert
SparseInsert(point, value) ==
    /\ sparse' = Sparse_insert(sparse, point, value)
    /\ slast' = "insert"

\* Sparse2D::get_or_insert_with
SparseGetOrInsertWith(point, fill) ==
    /\ sparse' = Sparse_get_or_insert_with(sparse, point, fill)
    /\ slast' = "get_or_insert_with"

\* Sparse2D::update_default
SparseUpdateDefault(point, func) ==
    /\ sparse' = Sparse_update_default(sparse, point, func)
    /\ slast' = "update_default"

\* Sparse2D::remove
SparseRemove(point) ==
    /\ sparse' = Sparse_remove(sparse, point)
    /\ slast' = "remove"

\* Sparse2D::get_mut and a write through the reference
SparseGetMut(point, value) ==
    /\ sparse' = Sparse_get_mut(sparse, point, value)
    /\ slast' = "get_mut"

\* Sparse2D::clear
SparseClear ==
    /\ sparse' = Sparse_clear(sparse)
    /\ slast' = "clear"

\* Every operation of a grid; the points inserted are not recorded here.
NextSparse ==
    \/ \E point \in Points : \E value \in Values :
          /\ MayStore(point)
          /\ SparseInsert(point, value)
          /\ UNCHANGED << webVars, dictVars, denseVars, pointVars, routeVars, renderVars, beamVars, townVars, inserted >>
    \/ \E point \in Points : \E fill \in Values :
          /\ MayStore(point)
          /\ SparseGetOrInsertWith(point, fill)
          /\ UNCHANGED << webVars, dictVars, denseVars, pointVars, routeVars, renderVars, beamVars, townVars, inserted >>
    \/ \E point \in Points : \E func \in Funcs :
          /\ MayStore(point)
          /\ SparseUpdateDefault(point, func)
          /\ UNCHANGED << webVars, dictVars, denseVars, pointVars, routeVars, renderVars, beamVars, townVars, inserted >>
    \/ \E point \in Points :
          SparseRemove(point) /\ UNCHANGED << webVars, dictVars, denseVars, pointVars, routeVars, renderVars, beamVars, townVars, inserted >>
    \/ \E point \in Points : \E value \in Values :
          SparseGetMut(point, value)
          /\ UNCHANGED << webVars, dictVars, denseVars, pointVars, routeVars, renderVars, beamVars, townVars, inserted >>
    \/ SparseClear /\ UNCHANGED << webVars, dictVars, denseVars, pointVars, routeVars, renderVars, beamVars, townVars, inserted >>

SpecSparse == Init /\ [][NextSparse]_vars

\* A grid that is only ever inserted into, with the record of the points
\* handed to insert and get_or_insert_with
NextSparseInserts ==
    \/ \E point \in Points : \E value \in Values :
          /\ MayInsert(point)
          /\ SparseInsert(point, value)
          /\ inserted' = inserted \cup {point}
          /\ UNCHANGED << webVars, dictVars, denseVars, pointVars, routeVars, renderVars, beamVars, townVars >>
    \/ \E point \in Points : \E fill \in Values :
          /\ MayInsert(point)
          /\ SparseGetOrInsertWith(point, fill)
          /\ inserted' = inserted \cup {point}
          /\ UNCHANGED << webVars, dictVars, denseVars, pointVars, routeVars, renderVars, beamVars, townVars >>

SpecSparseInserts == Init /\ [][NextSparseInserts]_vars

---------------------------------------------------------------------------
(* A Dense 2-D grid as a state machine *)

\* The sequences over S of at most n items
SeqsUpTo(S, n) == UNION {[1 .. k -> S] : k \in 0 .. n}

\* The tables a caller builds: any row lengths, jagged ones included
Shapes == SeqsUpTo(0 .. MaxSide, MaxSide)
TableOf(shape, fill) ==
    [i \in 1 .. Len(shape) |-> [j \in 1 .. shape[i] |-> fill]]
RawTables == {TableOf(shape, fill) : shape \in Shapes, fill \in Values}

\* A caller holds an origin of the coordinate type and a table of its making
InitDense ==
    /\ WebInit
    /\ DictInit
    /\ SparseInit
    /\ raw \in [origin : AllPoints, table : RawTables]
    /\ dense = Dense_new
    /\ dcall = [op |-> "new", panic |-> FALSE]
    /\ PointsIdle
    /\ RoutesIdle
    /\ RenderIdle
    /\ BeamsIdle
    /\ TownIdle

\* Dense::from_raw(origin, table): the grid, or the panic of the assertion
DenseFromRaw ==
    LET made == Dense_from_raw(raw.origin, raw.table) IN
    /\ dense' = IF made.panic THEN dense ELSE made.value
    /\ dcall' = [op |-> "from_raw", panic |-> made.panic]
    /\ UNCHANGED raw

\* Dense::clear
DenseClear ==
    /\ dense' = Dense_clear(dense)
    /\ dcall' = [op |-> "clear", panic |-> FALSE]
    /\ UNCHANGED raw

NextDense ==
    \/ DenseFromRaw /\ UNCHANGED << webVars, dictVars, sparseVars, pointVars, routeVars, renderVars, beamVars, townVars >>
    \/ DenseClear /\ UNCHANGED << webVars, dictVars, sparseVars, pointVars, routeVars, renderVars, beamVars, townVars >>

SpecDense == InitDense /\ [][NextDense]_vars

---------------------------------------------------------------------------
(* Distances between points *)

Points3D == {Point3D_new(x, y, z) : x \in Coords, y \in Coords, z \in Coords}

\* The plane point of a space point: its x and y
Flat(point) == Point2D_new(point.x, point.y)

\* A caller holds any two points
InitPoints ==
    /\ WebInit
    /\ DictInit
    /\ SparseInit
    /\ DenseIdle
    /\ pa \in Points3D
    /\ pb \in Points3D
    /\ dist = None
    /\ RoutesIdle
    /\ RenderIdle
    /\ BeamsIdle
    /\ TownIdle

\* Point2D::axial_distance on the plane points of pa and pb
AxialDistance2D(overflow_checks) ==
    /\ dist' = Some([dims |-> 2, checks |-> overflow_checks,
                     out |-> Point2D_axial_distance(Flat(pa), Flat(pb),
                                                    overflow_checks)])
    /\ UNCHANGED << pa, pb >>

\* Point3D::axial_distance
AxialDistance3D(overflow_checks) ==
    /\ dist' = Some([dims |-> 3, checks |-> overflow_checks,
                     out |-> Point3D_axial_distance(pa, pb, overflow_checks)])
    /\ UNCHANGED << pa, pb >>

NextPoints ==
    \/ \E overflow_checks \in Builds :
          AxialDistance2D(overflow_checks)
          /\ UNCHANGED << webVars, dictVars, sparseVars, denseVars, routeVars, renderVars, beamVars, townVars >>
    \/ \E overflow_checks \in Builds :
          AxialDistance3D(overflow_checks)
          /\ UNCHANGED << webVars, dictVars, sparseVars, denseVars, routeVars, renderVars, beamVars, townVars >>

SpecPoints == InitPoints /\ [][NextPoints]_vars

---------------------------------------------------------------------------
(* find_all_routes, search by search *)

\* The links a web may be built from
Links == {pr \in Ids \X Ids : pr[1] < pr[2]}

\* The node map create_link builds from a set of links
RECURSIVE WebOfLinks(_)
WebOfLinks(links) ==
    IF links = {} THEN << >>
    ELSE LET pr == CHOOSE l \in links : TRUE
         IN  Web_create_link(WebOfLinks(links \ {pr}), pr[1], pr[2])

\* self.nodes.keys().copied().collect::<Vec<_>>()
Idents(n) == Ascending(DOMAIN n)

\* A web built by create_link alone, about to be routed
InitRoutes ==
    /\ WebInit
    /\ DictInit
    /\ SparseInit
    /\ DenseIdle
    /\ PointsIdle
    /\ fweb \in {WebOfLinks(links) : links \in SUBSET Links}
    /\ fpar \in 1 .. MaxParallelism
    /\ fpc = "idle"
    /\ fidx = 0
    /\ frest = << >>
    /\ fgroup = << >>
    /\ frunning = {}
    /\ ffinished = << >>
    /\ fpaths = << >>
    /\ fsnap = << >>
    /\ RenderIdle
    /\ BeamsIdle
    /\ TownIdle

\* The for loop over a batch's paths starting although searches still run
CollectedEarly(running) == TRUE

\* collect::<Vec<_>>() returns once every search of the batch has ended
Collected(running) == running = {}

\* find_all_routes is entered: clear_routes, then the first src
RoutesBegin ==
    /\ fpc = "idle"
    /\ fweb' = Web_clear_routes(fweb)
    /\ fidx' = 1
    /\ frest' = SubSeq(Idents(fweb), 2, Len(Idents(fweb)))
    /\ fpc' = IF Idents(fweb) = << >> THEN "done" ELSE "chunk"
    /\ UNCHANGED << fpar, fgroup, frunning, ffinished, fpaths, fsnap >>

\* The chunks of this src are used up: the next src, or the end
RoutesNextSource ==
    /\ fpc = "chunk"
    /\ frest = << >>
    /\ IF fidx < Len(Idents(fweb))
       THEN /\ fidx' = fidx + 1
            /\ frest' = SubSeq(Idents(fweb), fidx + 2, Len(Idents(fweb)))
            /\ fpc' = "chunk"
       ELSE /\ fpc' = "done"
            /\ UNCHANGED << fidx, frest >>
    /\ fgroup' = << >>
    /\ UNCHANGED << fweb, fpar, frunning, ffinished, fpaths, fsnap >>

\* The next chunk: one search per destination is handed to the pool
RoutesSpawn ==
    /\ fpc = "chunk"
    /\ frest # << >>
    /\ LET size == IF Len(frest) < fpar THEN Len(frest) ELSE fpar IN
       /\ fgroup' = SubSeq(frest, 1, size)
       /\ frest' = SubSeq(frest, size + 1, Len(frest))
       /\ frunning' = 1 .. size
    /\ ffinished' = << >>
    /\ fpaths' = << >>
    /\ fsnap' = fweb
    /\ fpc' = "batch"
    /\ UNCHANGED << fweb, fpar, fidx >>

\* One search of the batch ends; flat_map keeps the path it found, if any
SearchCompletes(i) ==
    /\ fpc = "batch"
    /\ i \in frunning
    /\ LET found == Web_find_route(fweb, Idents(fweb)[fidx], fgroup[i]) IN
       fpaths' = IF found = None THEN fpaths ELSE Append(fpaths, found[1])
    /\ frunning' = frunning \ {i}
    /\ ffinished' = Append(ffinished, i)
    /\ UNCHANGED << fweb, fpar, fpc, fidx, frest, fgroup, fsnap >>

\* One turn of the loop over the collected paths: mark_path, reverse, mark_path
ApplyPath ==
    /\ fpc = "batch"
    /\ Collected(frunning)
    /\ fpaths # << >>
    /\ fweb' = MarkPaths(fweb, << Head(fpaths) >>)
    /\ fpaths' = Tail(fpaths)
    /\ UNCHANGED << fpar, fpc, fidx, frest, fgroup, frunning, ffinished, fsnap >>

\* The loop over the collected paths is over
BatchEnds ==
    /\ fpc = "batch"
    /\ Collected(frunning)
    /\ fpaths = << >>
    /\ fpc' = "chunk"
    /\ UNCHANGED << fweb, fpar, fidx, frest, fgroup, frunning, ffinished, fpaths, fsnap >>

NextRoutes ==
    \/ RoutesBegin /\ UNCHANGED << webVars, dictVars, sparseVars, denseVars, pointVars, renderVars, beamVars, townVars >>
    \/ RoutesNextSource /\ UNCHANGED << webVars, dictVars, sparseVars, denseVars, pointVars, renderVars, beamVars, townVars >>
    \/ RoutesSpawn /\ UNCHANGED << webVars, dictVars, sparseVars, denseVars, pointVars, renderVars, beamVars, townVars >>
    \/ \E i \in 1 .. MaxParallelism :
          SearchCompletes(i) /\ UNCHANGED << webVars, dictVars, sparseVars, denseVars, pointVars, renderVars, beamVars, townVars >>
    \/ ApplyPath /\ UNCHANGED << webVars, dictVars, sparseVars, denseVars, pointVars, renderVars, beamVars, townVars >>
    \/ BatchEnds /\ UNCHANGED << webVars, dictVars, sparseVars, denseVars, pointVars, renderVars, beamVars, townVars >>

SpecRoutes == InitRoutes /\ [][NextRoutes]_vars

---------------------------------------------------------------------------
(* DisplayGrid::render *)

\* (v as f64).log(16.0).ceil() as usize: the least d with 16^d >= v; the
\* logarithm of 0 is -inf, which the cast saturates to 0.
RECURSIVE CeilLog16(_, _)
CeilLog16(v, d) == IF Pow2(4 * d) >= v THEN d ELSE CeilLog16(v, d + 1)

num_hex_digits(v) == IF v = 0 THEN 0 ELSE CeilLog16(v, 0)

\* The arguments of one print_cell call
Cell(row, col, row_abs, col_abs) ==
    [row |-> row, col |-> col, row_abs |-> row_abs, col_abs |-> col_abs]

\* for col_abs in 0 ..= col_max_abs { print_cell(..); col += I::ONE; }
RECURSIVE Render_cols(_, _, _, _, _, _, _)
Render_cols(row, col, row_abs, col_abs, col_max_abs, calls, overflow_checks) ==
    IF col_abs > col_max_abs THEN [panic |-> FALSE, calls |-> calls]
    ELSE LET printed == Append(calls, Cell(row, col, row_abs, col_abs))
             next    == Int_add(col, 1, overflow_checks)
         IN  IF next.panic THEN [panic |-> TRUE, calls |-> printed]
             ELSE Render_cols(row, next.value, row_abs, col_abs + 1, col_max_abs,
                              printed, overflow_checks)

\* for row_abs in 0 ..= row_max_abs { ..; row += I::ONE; }
RECURSIVE Render_rows(_, _, _, _, _, _, _)
Render_rows(min, row, row_abs, row_max_abs, col_max_abs, calls, overflow_checks) ==
    IF row_abs > row_max_abs THEN [panic |-> FALSE, calls |-> calls]
    ELSE LET cols == Render_cols(row, min.x, row_abs, 0, col_max_abs, calls,
                                 overflow_checks)
             next == Int_add(row, 1, overflow_checks)
         IN  IF cols.panic THEN cols
             ELSE IF next.panic THEN [panic |-> TRUE, calls |-> cols.calls]
             ELSE Render_rows(min, next.value, row_abs + 1, row_max_abs,
                              col_max_abs, cols.calls, overflow_checks)

\* DisplayGrid::render: the print_cell calls made, and whether it panicked.
\* display_cols holds num_hex_digits lines, and the column header writes
\* into display_cols[0] for every column.
DisplayGrid_render(bounds, overflow_checks) ==
    IF bounds = None THEN [panic |-> FALSE, calls |-> << >>]
    ELSE
      LET min  == bounds[1][1]
          max  == bounds[1][2]
          rows == Int_sub(max.y, min.y, overflow_checks)
          cols == Int_sub(max.x, min.x, overflow_checks)
      IN  IF rows.panic \/ cols.panic THEN [panic |-> TRUE, calls |-> << >>]
          ELSE
            LET row_max_abs == as_usize(rows.value)
                col_max_abs == as_usize(cols.value)
                digits == num_hex_digits(MaxOf(row_max_abs, col_max_abs))
            IN  IF digits = 0 THEN [panic |-> TRUE, calls |-> << >>]
                ELSE Render_rows(min, min.y, 0, row_max_abs, col_max_abs, << >>,
                                 overflow_checks)

\* The boxes an implementor may answer: min is not beyond max on either axis
Boxes ==
    {box \in AllPoints \X AllPoints :
        box[1].x <= box[2].x /\ box[1].y <= box[2].y}

\* An implementor with any box, or none
InitRender ==
    /\ WebInit
    /\ DictInit
    /\ SparseInit
    /\ DenseIdle
    /\ PointsIdle
    /\ RoutesIdle
    /\ rbounds \in {None} \cup {Some(box) : box \in Boxes}
    /\ rcalls = << >>
    /\ rend = "idle"
    /\ BeamsIdle
    /\ TownIdle

\* DisplayGrid::render in a build
Render(overflow_checks) ==
    /\ rend = "idle"
    /\ LET out == DisplayGrid_render(rbounds, overflow_checks) IN
       /\ rcalls' = out.calls
       /\ rend' = IF out.panic THEN "panic" ELSE "ok"
    /\ UNCHANGED rbounds

NextRender ==
    \E overflow_checks \in Builds :
       Render(overflow_checks)
          /\ UNCHANGED << webVars, dictVars, sparseVars, denseVars, pointVars, routeVars, beamVars, townVars >>

SpecRender == InitRender /\ [][NextRender]_vars

---------------------------------------------------------------------------
(* 2023 day 16: beams of light in a hall of mirrors *)

Directions == {"North", "South", "West", "East"}
TileKinds == {"Void", "MirrorNwSe", "MirrorSwNe", "SplitterNS", "SplitterWE"}

\* Direction2D::unit
Direction2D_unit(direction) ==
    CASE direction = "North" -> Point2D_new(0, -1)
      [] direction = "South" -> Point2D_new(0, 1)
      [] direction = "West"  -> Point2D_new(-1, 0)
      [] direction = "East"  -> Point2D_new(1, 0)

\* Beam::new
Beam_new(point, direction) == [pos |-> point, dir |-> direction]

\* The tiles of a hall of the given size, whose origin is Point2D::ZERO
HallTiles(rows, cols) == {Point2D_new(x, y) : x \in 0 .. (cols - 1), y \in 0 .. (rows - 1)}

\* Dense::in_bounds on a grid whose origin is ZERO
Hall_in_bounds(hall, point) == point \in DOMAIN hall

\* An insert that never reports a beam as present
BeamSet_insert_blind(beams, direction) ==
    [present |-> FALSE, beams |-> beams \cup {direction}]

\* BeamSet::insert: one fetch_or sets the direction's bit and answers whether
\* it was set before
BeamSet_insert(beams, direction) ==
    [present |-> direction \in beams, beams |-> beams \cup {direction}]

\* The match on tile.kind: the direction the beam leaves with, whether it
\* steps away from the tile, and the directions of the beams it spawns
Tile_turn(kind, direction) ==
    CASE kind = "Void" -> [dir |-> direction, step |-> TRUE, other |-> << >>]
      [] kind = "MirrorNwSe" ->
            [dir |-> CASE direction = "North" -> "West"
                       [] direction = "South" -> "East"
                       [] direction = "West"  -> "North"
                       [] direction = "East"  -> "South",
             step |-> TRUE, other |-> << >>]
      [] kind = "MirrorSwNe" ->
            [dir |-> CASE direction = "North" -> "East"
                       [] direction = "South" -> "West"
                       [] direction = "West"  -> "South"
                       [] direction = "East"  -> "North",
             step |-> TRUE, other |-> << >>]
      [] kind = "SplitterNS" ->
            IF direction \in {"West", "East"}
            THEN [dir |-> "South", step |-> FALSE, other |-> << "North" >>]
            ELSE [dir |-> direction, step |-> TRUE, other |-> << >>]
      [] kind = "SplitterWE" ->
            IF direction \in {"North", "South"}
            THEN [dir |-> "East", step |-> FALSE, other |-> << "West" >>]
            ELSE [dir |-> direction, step |-> TRUE, other |-> << >>]

\* self.pos += self.dir.unit(); the halls are narrower than I::MAX
Beam_step(beam) ==
    Beam_new(Point2D_new(beam.pos.x + Direction2D_unit(beam.dir).x,
                         beam.pos.y + Direction2D_unit(beam.dir).y), beam.dir)

\* The workers of a scope: every beam with the number of workers walking it
NoWalkers == << >>
Walking(walkers) == DOMAIN walkers
AddWalker(walkers, beam) ==
    IF beam \in DOMAIN walkers THEN [walkers EXCEPT ![beam] = @ + 1]
    ELSE MapPut(walkers, beam, 1)
DropWalker(walkers, beam) ==
    IF walkers[beam] > 1 THEN [walkers EXCEPT ![beam] = @ - 1]
    ELSE MapRemove(walkers, beam)

\* A scope that lets its caller go on while workers still walk
ScopeJoinedEarly(walkers) == TRUE

\* rayon::scope returns when its closure and every task spawned into the
\* scope have ended
ScopeJoined(walkers) == walkers = NoWalkers

\* Every hall of up to HallRows x HallCols tiles, and every beam on a tile
InitBeams ==
    /\ WebInit
    /\ DictInit
    /\ SparseInit
    /\ DenseIdle
    /\ PointsIdle
    /\ RoutesIdle
    /\ RenderIdle
    /\ \E rows \in 1 .. HallRows : \E cols \in 1 .. HallCols :
          /\ bhall \in [HallTiles(rows, cols) -> TileKinds]
          /\ blit = [t \in HallTiles(rows, cols) |-> {}]
          /\ bstart \in {Beam_new(t, d) : t \in HallTiles(rows, cols), d \in Directions}
          /\ bpassed = [pr \in HallTiles(rows, cols) \X Directions |-> 0]
    /\ bpc = "idle"
    /\ bwalkers = NoWalkers
    /\ bid = 1
    /\ bsteps = 0
    /\ bmet = 0
    /\ TownIdle

\* LightGrid::walk enters the scope, whose closure walks the beam itself
WalkBegins ==
    /\ bpc = "idle"
    /\ bpc' = "scope"
    /\ bwalkers' = AddWalker(NoWalkers, bstart)
    /\ UNCHANGED << bhall, blit, bstart, bid, bpassed, bsteps, bmet >>

\* One turn of the loop of Beam::walk by one worker
BeamWalks(beam) ==
    /\ bpc = "scope"
    /\ beam \in Walking(bwalkers)
    /\ IF ~Hall_in_bounds(bhall, beam.pos)
       THEN /\ bwalkers' = DropWalker(bwalkers, beam)
            /\ UNCHANGED << blit, bid, bpassed, bsteps, bmet >>
       ELSE
         LET marked == BeamSet_insert(blit[beam.pos], beam.dir)
             turn   == Tile_turn(bhall[beam.pos], beam.dir)
             turned == Beam_new(beam.pos, turn.dir)
         IN  /\ blit' = [blit EXCEPT ![beam.pos] = marked.beams]
             /\ IF marked.present
                THEN /\ bwalkers' = DropWalker(bwalkers, beam)
                     /\ bmet' = bmet + 1
                     /\ UNCHANGED << bid, bpassed, bsteps >>
                ELSE /\ bpassed' = [bpassed EXCEPT ![<< beam.pos, beam.dir >>] = @ + 1]
                     /\ bid' = bid + Len(turn.other)
                     /\ bsteps' = IF turn.step THEN bsteps + 1 ELSE bsteps
                     /\ UNCHANGED bmet
                     /\ bwalkers' =
                           LET rest == DropWalker(bwalkers, beam)
                               more == IF turn.other = << >> THEN rest
                                       ELSE AddWalker(rest, Beam_new(beam.pos, turn.other[1]))
                           IN  AddWalker(more, IF turn.step THEN Beam_step(turned) ELSE turned)
    /\ UNCHANGED << bhall, bstart, bpc >>

\* The scope has joined and LightGrid::walk returns
WalkReturns ==
    /\ bpc = "scope"
    /\ ScopeJoined(bwalkers)
    /\ bpc' = "returned"
    /\ UNCHANGED << bhall, blit, bstart, bwalkers, bid, bpassed, bsteps, bmet >>

NextBeams ==
    \/ WalkBegins /\ UNCHANGED << webVars, dictVars, sparseVars, denseVars, pointVars, routeVars, renderVars, townVars >>
    \/ \E beam \in DOMAIN bwalkers :
          BeamWalks(beam) /\ UNCHANGED << webVars, dictVars, sparseVars, denseVars, pointVars, routeVars, renderVars, townVars >>
    \/ WalkReturns /\ UNCHANGED << webVars, dictVars, sparseVars, denseVars, pointVars, routeVars, renderVars, townVars >>

SpecBeams == InitBeams /\ [][NextBeams]_vars

\* rayon runs every task spawned into the scope: a worker that can take a
\* turn of its loop takes it, and the scope returns once it has joined.
SpecBeamsFair == SpecBeams /\ WF_vars(NextBeams)

---------------------------------------------------------------------------
(* 2023 day 17: the cheapest route through a town *)

\* i64::MAX, the score no route has: here the first number above the cost of
\* every route of a town of TownRows x TownCols tiles
Score_MAX == DearCost * TownRows * TownCols + 1

\* grid.dimensions(): the town starts at ZERO and ends at its far corner
Town_start(town) == Point2D_new(0, 0)
Town_end(town) ==
    CHOOSE t \in DOMAIN town : \A u \in DOMAIN town : u.x <= t.x /\ u.y <= t.y

\* Pathfinder::new
Pathfinder_new(pos, direction) ==
    [past |-> {pos}, score |-> 0, pos |-> pos, dir |-> direction, to_turn |-> RUN]

\* The directions a Pathfinder may leave a tile in, each with the run left:
\* ahead while to_turn.checked_sub(1) is Some, then the two turns
Pathfinder_headings(finder) ==
    LET turns == IF finder.dir \in {"North", "South"}
                 THEN << [dir |-> "East", to_turn |-> RUN], [dir |-> "West", to_turn |-> RUN] >>
                 ELSE << [dir |-> "South", to_turn |-> RUN], [dir |-> "North", to_turn |-> RUN] >>
        ahead == IF finder.to_turn >= 1
                 THEN << [dir |-> finder.dir, to_turn |-> finder.to_turn - 1] >>
                 ELSE << >>
    IN  ahead \o turns

\* The clone of a Pathfinder moved one tile in a heading
Pathfinder_moved(town, finder, heading) ==
    LET pt == Point2D_new(finder.pos.x + Direction2D_unit(heading.dir).x,
                          finder.pos.y + Direction2D_unit(heading.dir).y)
    IN  [past |-> finder.past \cup {pt},
         score |-> finder.score + (IF pt \in DOMAIN town THEN town[pt] ELSE 0),
         pos |-> pt, dir |-> heading.dir, to_turn |-> heading.to_turn]

\* steps: the moves that stay in the town and enter a tile not passed yet
Pathfinder_steps(town, finder) ==
    LET moved == [i \in DOMAIN Pathfinder_headings(finder) |->
                    Pathfinder_moved(town, finder, Pathfinder_headings(finder)[i])]
    IN  SelectSeq(moved, LAMBDA m : m.pos \in DOMAIN town /\ m.pos \notin finder.past)

\* The towns of a size: every tile is cheap but at most one, which is dear
Towns(rows, cols) ==
    {[t \in HallTiles(rows, cols) |-> IF t = dear THEN DearCost ELSE CheapCost] :
        dear \in HallTiles(rows + 1, cols)}

\* Every such town of up to TownRows x TownCols tiles
InitTown ==
    /\ WebInit
    /\ DictInit
    /\ SparseInit
    /\ DenseIdle
    /\ PointsIdle
    /\ RoutesIdle
    /\ RenderIdle
    /\ BeamsIdle
    /\ \E rows \in 1 .. TownRows : \E cols \in 1 .. TownCols :
          /\ ctown \in Towns(rows, cols)
          /\ cmins = [pr \in HallTiles(rows, cols) \X Directions |-> Score_MAX]
    /\ cbest = Score_MAX
    /\ cfinders = NoWalkers
    /\ cqueue = << >>
    /\ cpc = "idle"

\* The number of tasks in a collection of workers
RECURSIVE Tasks(_)
Tasks(walkers) ==
    IF walkers = NoWalkers THEN 0
    ELSE LET w == CHOOSE x \in DOMAIN walkers : TRUE
         IN  walkers[w] + Tasks(MapRemove(walkers, w))

\* Coldtown::part_1 enters the scope: one Pathfinder heading East is spawned,
\* one heading South is run by the closure
SearchBegins ==
    /\ cpc = "idle"
    /\ cpc' = "scope"
    /\ cqueue' = << Pathfinder_new(Town_start(ctown), "East") >>
    /\ cfinders' = AddWalker(NoWalkers, Pathfinder_new(Town_start(ctown), "South"))
    /\ UNCHANGED << ctown, cmins, cbest >>

\* A thread of the pool with nothing to run takes up a spawned task: the one
\* spawned last, or the one spawned first
TaskStarts(newest) ==
    /\ cpc = "scope"
    /\ cqueue # << >>
    /\ Tasks(cfinders) < PoolThreads
    /\ IF newest
       THEN /\ cfinders' = AddWalker(cfinders, cqueue[Len(cqueue)])
            /\ cqueue' = SubSeq(cqueue, 1, Len(cqueue) - 1)
       ELSE /\ cfinders' = AddWalker(cfinders, Head(cqueue))
            /\ cqueue' = Tail(cqueue)
    /\ UNCHANGED << ctown, cmins, cbest, cpc >>

\* One turn of the loop of Pathfinder::search by one task: the two checks,
\* then the task goes on as the first of its steps and spawns the others
Searches(finder) ==
    /\ cpc = "scope"
    /\ finder \in Walking(cfinders)
    /\ IF finder.score >= cbest
       THEN /\ cfinders' = DropWalker(cfinders, finder)
            /\ UNCHANGED << cmins, cbest, cqueue >>
       ELSE
         LET at    == << finder.pos, finder.dir >>
             least == cmins[at]
             steps == Pathfinder_steps(ctown, finder)
         IN  /\ cmins' = [cmins EXCEPT ![at] = Min({least, finder.score})]
             /\ IF least < finder.score
                THEN /\ cfinders' = DropWalker(cfinders, finder)
                     /\ UNCHANGED << cbest, cqueue >>
                ELSE /\ cbest' = IF finder.pos = Town_end(ctown)
                                 THEN Min({cbest, finder.score}) ELSE cbest
                     /\ IF \/ finder.pos = Town_end(ctown) /\ cbest > finder.score
                           \/ steps = << >>
                        THEN /\ cfinders' = DropWalker(cfinders, finder)
                             /\ UNCHANGED cqueue
                        ELSE /\ cfinders' = AddWalker(DropWalker(cfinders, finder), Head(steps))
                             /\ cqueue' = cqueue \o Tail(steps)
    /\ UNCHANGED << ctown, cpc >>

\* The scope has joined and part_1 answers best_score
SearchReturns ==
    /\ cpc = "scope"
    /\ ScopeJoined(cfinders) /\ cqueue = << >>
    /\ cpc' = "joined"
    /\ UNCHANGED << ctown, cmins, cbest, cfinders, cqueue >>

NextTown ==
    \/ SearchBegins /\ UNCHANGED << webVars, dictVars, sparseVars, denseVars, pointVars, routeVars, renderVars, beamVars >>
    \/ \E newest \in BOOLEAN :
          TaskStarts(newest) /\ UNCHANGED << webVars, dictVars, sparseVars, denseVars, pointVars, routeVars, renderVars, beamVars >>
    \/ \E finder \in DOMAIN cfinders :
          Searches(finder) /\ UNCHANGED << webVars, dictVars, sparseVars, denseVars, pointVars, routeVars, renderVars, beamVars >>
    \/ SearchReturns /\ UNCHANGED << webVars, dictVars, sparseVars, denseVars, pointVars, routeVars, renderVars, beamVars >>

SpecTown == InitTown /\ [][NextTown]_vars

---------------------------------------------------------------------------
(* The link topology, stated without the search *)

\* b is a port of a
Linked(n, a, b) == a \in DOMAIN n /\ b \in DOMAIN n[a]

\* The nodes one link away from a node of S
Beyond(n, S) == {b \in DOMAIN n : \E a \in S : Linked(n, a, b)}

\* The nodes joined to src by some chain of links, src included
RECURSIVE Closure(_, _)
Closure(n, S) ==
    IF Beyond(n, S) \subseteq S THEN S ELSE Closure(n, S \cup Beyond(n, S))

Component(n, src) == IF src \in DOMAIN n THEN Closure(n, {src}) ELSE {}

Joined(n, src, dst) == dst \in Component(n, src)

\* The least number of links on a chain from a node of S to dst, given that
\* the nodes of S are d links from the start and dst is joined to them
RECURSIVE Layers(_, _, _, _)
Layers(n, S, dst, d) ==
    IF dst \in S THEN d ELSE Layers(n, S \cup Beyond(n, S), dst, d + 1)

Distance(n, src, dst) == Layers(n, {src}, dst, 0)

\* The pairs of nodes that some chain of links joins
JoinedPairs(n) == {pr \in (DOMAIN n) \X (DOMAIN n) : Joined(n, pr[1], pr[2])}

\* The hops of a path
Hops(path) == Len(path) - 1

---------------------------------------------------------------------------
(* C1 *)

\* C1: on a web whose routing cache is empty, find_route between two nodes
\* that a chain of links joins returns a path with as many hops as the
\* shortest chain of links between them has links.
C1_ShortestOnEmptyCache ==
    CacheEmpty(nodes) =>
        \A pr \in JoinedPairs(nodes) :
            LET found == Web_find_route(nodes, pr[1], pr[2]) IN
            /\ found # None
            /\ Hops(found[1]) = Distance(nodes, pr[1], pr[2])

\* A web changed last by remove_link, on which some pair is three links apart
\* and find_route walks those three links (the path graph a-b-c-d).
C1_Witness ==
    /\ CacheEmpty(nodes)
    /\ last = "remove_link"
    /\ \E pr \in JoinedPairs(nodes) :
          /\ Distance(nodes, pr[1], pr[2]) = 3
          /\ Web_find_route(nodes, pr[1], pr[2]) # None
          /\ Len(Web_find_route(nodes, pr[1], pr[2])[1]) = 4

---------------------------------------------------------------------------
(* C2 *)

\* C2: right after find_all_routes, find_route between two joined nodes
\* returns, on the warmed cache, a path as long as the one it returns on the
\* same links once clear_routes has emptied the cache.
C2_WarmAsLongAsCold ==
    last = "find_all_routes" =>
        \A pr \in JoinedPairs(nodes) :
            LET warm == Web_find_route(nodes, pr[1], pr[2])
                cold == Web_find_route(Web_clear_routes(nodes), pr[1], pr[2])
            IN  /\ warm # None
                /\ cold # None
                /\ Len(warm[1]) = Len(cold[1])

\* A warmed web on which some search of three hops fast-forwards along the
\* cache, where the search on the cleared web has to fork.
C2_Witness ==
    /\ last = "find_all_routes"
    /\ \E pr \in JoinedPairs(nodes) :
          LET warm == Web_find_route_run(nodes, pr[1], pr[2])
              cold == Web_find_route_run(Web_clear_routes(nodes), pr[1], pr[2])
          IN  /\ Distance(nodes, pr[1], pr[2]) = 3
              /\ warm.forks = 0
              /\ cold.forks > 0
              /\ Len(warm.path[1]) = Len(cold.path[1])

---------------------------------------------------------------------------
(* C3 *)

\* The port that node cur's table names for dst, or cur when it names none
NextHop(n, cur, dst) ==
    IF cur \notin DOMAIN n \/ Node_route_to(n, cur, dst) = None THEN cur
    ELSE Node_route_to(n, cur, dst)[1]

\* The cached route from cur to dst crosses the link one-two within hops hops
RECURSIVE RunsOver(_, _, _, _, _, _)
RunsOver(n, cur, dst, one, two, hops) ==
    IF cur = dst \/ hops = 0 \/ NextHop(n, cur, dst) = cur THEN FALSE
    ELSE \/ {cur, NextHop(n, cur, dst)} = {one, two}
         \/ RunsOver(n, NextHop(n, cur, dst), dst, one, two, hops - 1)

\* No table of after lists, through a port, a destination whose cached route
\* in before ran over the link one-two
Pruned(before, after, one, two) ==
    \A u \in DOMAIN after : \A port \in DOMAIN after[u] : \A dst \in after[u][port] :
        ~ RunsOver(before, port, dst, one, two, Cardinality(Ids))

\* C3: remove_link on a cache warmed by find_all_routes leaves no node's
\* table listing a destination through a port when the cached route to that
\* destination ran over the removed link.
C3_RemoveLinkPrunes ==
    [][\A one, two \in Ids :
          (last = "find_all_routes" /\ RemoveLink(one, two))
              => Pruned(nodes, nodes', one, two)]_vars

---------------------------------------------------------------------------
(* C4 *)

\* C4: right after find_all_routes, every node names, for every other node
\* joined to it, a neighbour one link nearer to that node, and find_route
\* between them never forks: it pushes one spider per hop.
C4_EveryHopMemoized ==
    last = "find_all_routes" =>
        \A pr \in JoinedPairs(nodes) :
            pr[1] # pr[2] =>
                LET next == Node_route_to(nodes, pr[1], pr[2])
                    run  == Web_find_route_run(nodes, pr[1], pr[2])
                IN  /\ next # None
                    /\ Linked(nodes, pr[1], next[1])
                    /\ Distance(nodes, next[1], pr[2])
                          = Distance(nodes, pr[1], pr[2]) - 1
                    /\ run.forks = 0
                    /\ run.spawned = 1 + Distance(nodes, pr[1], pr[2])

\* A warmed web with two nodes three links apart, the far one served through
\* a port of the near one.
C4_Witness ==
    /\ last = "find_all_routes"
    /\ \E pr \in JoinedPairs(nodes) :
          /\ Distance(nodes, pr[1], pr[2]) = 3
          /\ Node_route_to(nodes, pr[1], pr[2]) # None
          /\ pr[2] \in nodes[pr[1]][Node_route_to(nodes, pr[1], pr[2])[1]]
          /\ Web_find_route_run(nodes, pr[1], pr[2]).spawned = 4

---------------------------------------------------------------------------
(* C5 *)

\* The chains of links of d hops from src whose every node stands one link
\* further from src than the node before it
RECURSIVE ChainsFrom(_, _, _)
ChainsFrom(n, src, d) ==
    IF d = 0 THEN {<< src >>}
    ELSE UNION {{Append(c, b) : b \in {x \in DOMAIN n :
                                    /\ Linked(n, c[Len(c)], x)
                                    /\ Distance(n, src, x) = d}} :
                c \in ChainsFrom(n, src, d - 1)}

\* All shortest chains of links from src to dst
ShortestChains(n, src, dst) ==
    {c \in ChainsFrom(n, src, Distance(n, src, dst)) : c[Len(c)] = dst}

\* p has the lower Identifier at the first hop where p and q differ
LowerAtFirstDifference(p, q) ==
    \E i \in 1 .. Len(p) : p[i] < q[i] /\ \A j \in 1 .. i - 1 : p[j] = q[j]

\* C5: on an empty cache, find_route returns, of all the shortest chains from
\* src to dst, the one with the lower Identifier at the first hop where it
\* differs from any other.
C5_TieBreakLowestIdentifier ==
    CacheEmpty(nodes) =>
        \A pr \in JoinedPairs(nodes) :
            LET found  == Web_find_route(nodes, pr[1], pr[2])
                chains == ShortestChains(nodes, pr[1], pr[2])
            IN  /\ found # None
                /\ found[1] \in chains
                /\ \A c \in chains \ {found[1]} : LowerAtFirstDifference(found[1], c)

\* An empty-cache web with two shortest chains between some pair, of which
\* find_route returns one (the diamond a-b, a-c, b-d, c-d).
C5_Witness ==
    /\ CacheEmpty(nodes)
    /\ \E pr \in JoinedPairs(nodes) :
          /\ Cardinality(ShortestChains(nodes, pr[1], pr[2])) >= 2
          /\ Web_find_route(nodes, pr[1], pr[2]) # None
          /\ Web_find_route(nodes, pr[1], pr[2])[1] \in ShortestChains(nodes, pr[1], pr[2])

---------------------------------------------------------------------------
(* C6 *)

\* C6: count_reachable of a node is the number of nodes that chains of links
\* join to it, itself included, whatever the routing cache holds.
C6_CountIsComponent ==
    \A start \in DOMAIN nodes :
        /\ Web_count_reachable(nodes, start) = Cardinality(Component(nodes, start))
        /\ Web_count_reachable(Web_clear_routes(nodes), start)
              = Web_count_reachable(nodes, start)

\* A web with a filled cache, a node joined to others, and a node left out
\* of its count.
C6_Witness ==
    /\ ~ CacheEmpty(nodes)
    /\ \E start \in DOMAIN nodes :
          /\ Web_count_reachable(nodes, start) >= 3
          /\ (DOMAIN nodes) \ Component(nodes, start) # {}

---------------------------------------------------------------------------
(* C7 *)

\* The Identifiers the dictionary has issued
Issued(d) == {d.cached[v] : v \in DOMAIN d.cached}

\* C7: find_route answers None when src is no node or no chain of links leads
\* to dst; count_reachable of a non-node is 0; lookup of an Identifier the
\* dictionary never issued is None and get_name of it is the blank name.
C7_AbsenceIsEmpty ==
    /\ \A src, dst \in Ids :
          (src \notin DOMAIN nodes \/ ~ Joined(nodes, src, dst))
              => Web_find_route(nodes, src, dst) = None
    /\ \A ident \in Ids \ DOMAIN nodes : Web_count_reachable(nodes, ident) = 0
    /\ \A ident \in Ids \ Issued(names) :
          /\ Dictionary_lookup(names, ident) = None
          /\ Web_get_name(names, ident) = Blank

\* A node was removed while the cache still routes to it: a search for it
\* starts along the stale route and ends with None.
C7_Witness ==
    /\ last = "remove"
    /\ Ids \ Issued(names) # {}
    /\ \E src \in DOMAIN nodes : \E dst \in Ids \ DOMAIN nodes :
          /\ Node_route_to(nodes, src, dst) # None
          /\ Web_find_route(nodes, src, dst) = None
          /\ Web_find_route(nodes, dst, src) = None
          /\ Web_count_reachable(nodes, dst) = 0

---------------------------------------------------------------------------
(* C8 *)

\* C8: b is a port of a exactly when a is a port of b.
C8_LinksSymmetric ==
    \A a, b \in Ids : Linked(nodes, a, b) <=> Linked(nodes, b, a)

\* Links remain, in both directions, after a remove_link on a filled cache.
C8_Witness ==
    /\ last = "remove_link"
    /\ ~ CacheEmpty(nodes)
    /\ \E a, b \in Ids : a # b /\ Linked(nodes, a, b) /\ Linked(nodes, b, a)

---------------------------------------------------------------------------
(* C9 *)

\* C9: remove(x) leaves x no node and no port of any node, and leaves the
\* other nodes and every link between two of them as they were.
C9_RemoveScrubs ==
    [][\A x \in Ids :
          Remove(x) =>
              /\ Web_get_node(nodes', x) = None
              /\ \A i \in DOMAIN nodes' : ~ Linked(nodes', i, x)
              /\ DOMAIN nodes' = (DOMAIN nodes) \ {x}
              /\ \A a, b \in Ids \ {x} :
                    /\ Linked(nodes', a, b) <=> Linked(nodes, a, b)
                    /\ Linked(nodes, a, b) => nodes'[a][b] = nodes[a][b]]_vars

\* A node that the cache still routes to was removed, and links between
\* other nodes remain.
C9_Witness ==
    /\ last = "remove"
    /\ \E x \in Ids \ DOMAIN nodes :
          /\ \E u \in DOMAIN nodes : \E port \in DOMAIN nodes[u] : x \in nodes[u][port]
          /\ \E a, b \in Ids \ {x} : a # b /\ Linked(nodes, a, b)

---------------------------------------------------------------------------
(* C10 *)

\* C10: clear_routes leaves every reachable set empty and the nodes and the
\* ports of every node as they were.
C10_ClearRoutesKeepsLinks ==
    [][ClearRoutes =>
          /\ CacheEmpty(nodes')
          /\ DOMAIN nodes' = DOMAIN nodes
          /\ \A i \in DOMAIN nodes : DOMAIN nodes'[i] = DOMAIN nodes[i]]_vars

\* clear_routes has run on a web with links three hops long.
C10_Witness ==
    /\ last = "clear_routes"
    /\ CacheEmpty(nodes)
    /\ \E pr \in JoinedPairs(nodes) : Distance(nodes, pr[1], pr[2]) = 3

---------------------------------------------------------------------------
(* Dictionary: claims *)

\* C11: inserting a content the dictionary already holds is idempotent: a
\* second insert of the content just inserted answers the same Identifier and
\* leaves len() and both maps as they were, whatever the dictionary held before.
C11_InsertIdempotent ==
    [][\A value \in Contents :
          DictInsert(value) =>
             LET again == Dictionary_insert(dict', value) IN
             /\ again.ident = dret'[1].ident
             /\ Dictionary_len(again.dict) = Dictionary_len(dict')
             /\ again.dict.cached = dict'.cached
             /\ again.dict.idents = dict'.idents]_vars

\* A content was inserted again after another content followed it.
C11_Witness ==
    /\ dret # None
    /\ Len(firsts) >= 2
    /\ dret[1].value = firsts[1]
    /\ dret[1].ident = 0

\* The Identifiers that some insert has answered
Answered == {pair[2] : pair \in returned}

\* C12: Identifiers are issued in the order of first insertion, without gaps
\* and without reuse: the n-th distinct content holds Identifier n-1, the
\* Identifiers issued are exactly 0..len()-1, and two distinct contents never
\* share one.
C12_IssuedInOrder ==
    /\ \A n \in DOMAIN firsts :
          Dictionary_lookup_value(dict, firsts[n]) = Some(n - 1)
    /\ Answered = 0 .. (Dictionary_len(dict) - 1)
    /\ DOMAIN dict.idents = Answered
    /\ \A one, two \in returned : one[1] # two[1] => one[2] # two[2]

\* Three contents were inserted, and the second of them once more since.
C12_Witness ==
    /\ Len(firsts) = 3
    /\ dret # None
    /\ dret[1].value = firsts[2]
    /\ dret[1].ident = 1

\* C13: an Identifier is stable: once insert(v) has answered i, lookup(i) is
\* v and lookup_value(v) is i in every later state, and lookup(j) is None
\* only for an Identifier j that was never issued.
C13_IdentifiersStable ==
    /\ \A pair \in returned :
          /\ Dictionary_lookup(dict, pair[2]) = Some(pair[1])
          /\ Dictionary_lookup_value(dict, pair[1]) = Some(pair[2])
    /\ \A j \in 0 .. MaxContents :
          Dictionary_lookup(dict, j) = None => j \notin Answered

\* Every content is held, the first of them was inserted again last, and the
\* next Identifier is still unissued.
C13_Witness ==
    /\ Len(firsts) = MaxContents
    /\ dret # None
    /\ dret[1].value = firsts[1]
    /\ Dictionary_lookup(dict, MaxContents) = None

---------------------------------------------------------------------------
(* Sparse grid: claims *)

\* The greatest member of a set of integers
Greatest(S) == CHOOSE x \in S : \A y \in S : y <= x

\* The least rectangle around a set of points, as its two corners
Hull(S) ==
    << [y |-> Min({pt.y : pt \in S}), x |-> Min({pt.x : pt \in S})],
       [y |-> Greatest({pt.y : pt \in S}), x |-> Greatest({pt.x : pt \in S})] >>

\* point lies in the rectangle with the corners box[1] and box[2]
Within(box, point) ==
    /\ box[1].x <= point.x /\ point.x <= box[2].x
    /\ box[1].y <= point.y /\ point.y <= box[2].y

\* C14: on a Sparse grid that was only ever mutated by insert and
\* get_or_insert_with, the bounding box is the exact hull of the inserted
\* points: encloses(p) holds for every inserted p, dimensions() is the
\* component-wise (min, max) over the inserted points, and that is the box
\* encloses() tests against.
C14_BoxIsExactHull ==
    /\ \A point \in inserted : Sparse_encloses(sparse, point)
    /\ inserted # {} =>
          /\ Sparse_dimensions(sparse) = Some(Hull(inserted))
          /\ sparse.bounds = Sparse_dimensions(sparse)
          /\ \A point \in Points :
                Sparse_encloses(sparse, point) <=> Within(Hull(inserted), point)

\* Three points were inserted and the far corner of their hull is none of them.
C14_Witness ==
    /\ Cardinality(inserted) = 3
    /\ slast = "get_or_insert_with"
    /\ Hull(inserted)[2] \notin inserted
    /\ Sparse_encloses(sparse, Hull(inserted)[2])

\* C15: remove(p) never shrinks the bounding box and touches no other point:
\* encloses(q) answers after the removal what it answered before, for every
\* q, and every stored value other than the one at p is unchanged.
C15_RemoveKeepsBox ==
    [][\A point \in Points :
          SparseRemove(point) =>
             /\ \A q \in Points :
                   Sparse_encloses(sparse', q) <=> Sparse_encloses(sparse, q)
             /\ \A q \in Points \ {point} :
                   Sparse_get(sparse', q) = Sparse_get(sparse, q)]_vars

\* A point on the edge of the box was removed: the box still encloses a point
\* that the live points no longer span.
C15_Witness ==
    /\ slast = "remove"
    /\ Sparse_len(sparse) = 1
    /\ \E q \in Points :
          /\ Sparse_encloses(sparse, q)
          /\ ~Within(Sparse_dimensions(sparse)[1], q)

\* The two states of a grid's lifecycle
SparseEmpty(s) == s.bounds = None /\ Sparse_points(s) = {}
SparsePopulated(s) == s.bounds # None

\* C16: a Sparse grid is always Empty (no bounding box and no stored point)
\* or Populated (a bounding box exists): an insertion makes it Populated, and
\* once Populated no operation other than clear() (insert, get_or_insert_with,
\* update_default, remove, get_mut) takes it back to Empty.
C16_EmptyOrPopulated ==
    [][/\ SparseEmpty(sparse') \/ SparsePopulated(sparse')
       /\ slast' \in {"insert", "get_or_insert_with"} => SparsePopulated(sparse')
       /\ SparsePopulated(sparse) /\ slast' # "clear"
             => SparsePopulated(sparse') /\ ~SparseEmpty(sparse')]_vars

---------------------------------------------------------------------------
(* Dense grid: claims *)

\* Sparse -> Dense -> Sparse: From<Sparse2D>, then into_iter().collect()
RoundTrip(s, overflow_checks) ==
    LET there == Dense_from_sparse(s, overflow_checks) IN
    IF there.panic THEN Panicked
    ELSE LET cells == Dense_into_iter(there.value, overflow_checks) IN
         IF cells.panic THEN Panicked ELSE Ok(Sparse_from_iter(cells.value))

\* C17: converting any Sparse grid to a Dense grid and back to a Sparse grid
\* preserves every stored (point, value) pair, and no point that was a hole of
\* the original (inside its box, holding no value) is present in the result.
C17_RoundTripKeepsHoles ==
    \A overflow_checks \in Builds :
       LET back == RoundTrip(sparse, overflow_checks) IN
       /\ ~back.panic
       /\ \A point \in Points :
             /\ Sparse_contains(sparse, point)
                   => Sparse_get(back.value, point) = Sparse_get(sparse, point)
             /\ ~Sparse_contains(sparse, point)
                   => ~Sparse_contains(back.value, point)

\* The width and the height of a grid's table
Dense_width(d) == IF d.table = << >> THEN 0 ELSE Len(d.table[1])
Dense_height(d) == Len(d.table)

\* point lies in the rectangle of w by h cells at the origin of the grid
InRectangle(d, point) ==
    /\ d.origin.x <= point.x /\ point.x < d.origin.x + Dense_width(d)
    /\ d.origin.y <= point.y /\ point.y < d.origin.y + Dense_height(d)

\* C18: for a Dense grid with origin o, width w and height h, in_bounds(p) is
\* true exactly when o.x <= p.x < o.x + w and o.y <= p.y < o.y + h, for every
\* point p of the coordinate type, points before the origin included, and is
\* false for every point when the grid is empty.
C18_InBoundsExact ==
    \A overflow_checks \in Builds : \A point \in AllPoints :
       /\ Dense_in_bounds(dense, point, overflow_checks) = Ok(InRectangle(dense, point))
       /\ Dense_is_empty(dense)
             => Dense_in_bounds(dense, point, overflow_checks) = Ok(FALSE)

\* in_bounds is exact wherever the offset of the point from the origin is a
\* value of the coordinate type, points before the origin included.
InBoundsExactWithinReach ==
    \A overflow_checks \in Builds : \A point \in AllPoints :
       (point.x - dense.origin.x \in Ints /\ point.y - dense.origin.y \in Ints)
          => Dense_in_bounds(dense, point, overflow_checks)
                = Ok(InRectangle(dense, point))

\* Some two rows of the table differ in length
Jagged(table) ==
    \E i, j \in DOMAIN table : Len(table[i]) # Len(table[j])

\* C19: from_raw panics whenever the rows of the table handed to it do not
\* all have the same length; every table it accepts has rows of equal
\* length, so that every cell of the rectangle from the origin to
\* origin + (w-1, h-1) exists and can be indexed.
C19_FromRawRejectsJagged ==
    dcall.op = "from_raw" =>
       /\ dcall.panic <=> Jagged(raw.table)
       /\ ~dcall.panic =>
             /\ dense = [origin |-> raw.origin, table |-> raw.table]
             /\ \A i \in DOMAIN dense.table :
                   Len(dense.table[i]) = Dense_width(dense)
             /\ \A overflow_checks \in Builds : \A point \in AllPoints :
                   InRectangle(dense, point) =>
                      Dense_index(dense, point, overflow_checks)
                         = Ok(raw.table[point.y - raw.origin.y + 1]
                                       [point.x - raw.origin.x + 1])

\* A table of two rows of different lengths was handed over and refused.
C19_Witness ==
    /\ dcall.op = "from_raw"
    /\ dcall.panic
    /\ Len(raw.table) = 2
    /\ Len(raw.table[1]) # Len(raw.table[2])

---------------------------------------------------------------------------
(* Points: claims *)

Abs(v) == IF v < 0 THEN -v ELSE v

\* |a.x-b.x| + |a.y-b.y|, and + |a.z-b.z| in space
Manhattan(a, b, dims) ==
    Abs(a.x - b.x) + Abs(a.y - b.y) + (IF dims = 3 THEN Abs(a.z - b.z) ELSE 0)

\* The distance the code computes from b to a, in the build of the last call
Backwards ==
    IF dist[1].dims = 2
    THEN Point2D_axial_distance(Flat(pb), Flat(pa), dist[1].checks)
    ELSE Point3D_axial_distance(pb, pa, dist[1].checks)

\* C20: for all points a and b of a range whose distances the coordinate type
\* can hold, a.axial_distance(b) is |a.x-b.x| + |a.y-b.y| (+ |a.z-b.z|);
\* hence it equals b.axial_distance(a), and a.axial_distance(a) is zero.
C20_AxialDistanceIsManhattan ==
    (dist # None /\ Manhattan(pa, pb, dist[1].dims) <= IntMax) =>
       /\ dist[1].out = Ok(Manhattan(pa, pb, dist[1].dims))
       /\ dist[1].out = Backwards
       /\ (pa = pb) => dist[1].out = Ok(0)

\* A distance in space was taken between points that differ on every axis,
\* the receiver ahead on one and behind on another.
C20_Witness ==
    /\ dist # None
    /\ dist[1].dims = 3
    /\ pa.x > pb.x /\ pa.y < pb.y /\ pa.z # pb.z
    /\ dist[1].out = Ok(3)

---------------------------------------------------------------------------
(* Sparse grid: further claims *)

\* C24: insert stores the value it is given: after insert(point, value),
\* get(point) answers that value, whatever the grid held before, a different
\* value at the point included.
C24_InsertStoresValue ==
    [][\A point \in Points : \A value \in Values :
          SparseInsert(point, value)
             => Sparse_get(sparse', point) = Some(value)]_vars

\* C28: under any sequence of insert, get_or_insert_with, update_default,
\* remove and clear, every point that holds a value is inside the bounding
\* box: contains(p) implies encloses(p).
C28_StoredPointsEnclosed ==
    \A point \in Points :
       Sparse_contains(sparse, point) => Sparse_encloses(sparse, point)

---------------------------------------------------------------------------
(* Web: searches on any cache *)

\* path is a route of the web from src to dst: it starts with src, ends
\* with dst, holds no node twice, and every step goes through a port
RealRoute(n, path, src, dst) ==
    /\ Len(path) >= 1
    /\ path[1] = src
    /\ path[Len(path)] = dst
    /\ \A i, j \in DOMAIN path : i # j => path[i] # path[j]
    /\ \A i \in DOMAIN path : path[i] \in DOMAIN n
    /\ \A i \in 1 .. (Len(path) - 1) : path[i + 1] \in DOMAIN n[path[i]]

\* C25: whatever the state of the routing cache (empty, warmed, or stale
\* after a remove_link or remove without clear_routes), every path that
\* find_route(src, dst) returns is a real route of the current topology.
C25_FoundPathsAreReal ==
    \A src, dst \in Ids :
       LET found == Web_find_route(nodes, src, dst) IN
       found # None => RealRoute(nodes, found[1], src, dst)

\* A link was removed under a warmed cache, and a search still finds a route
\* of two hops or more.
C25_Witness ==
    /\ last = "remove_link"
    /\ stale > 0
    /\ \E src, dst \in Ids :
          /\ Web_find_route(nodes, src, dst) # None
          /\ Len(Web_find_route(nodes, src, dst)[1]) >= 3

\* C26: after find_all_routes() followed by remove_link(one, two) and no
\* clear_routes(), find_route(src, dst) still returns a path for every pair
\* that remains connected in the reduced topology, and that path is a
\* shortest one there.
C26_StaleCacheStillShortest ==
    [][\A one, two \in Ids :
          (last = "find_all_routes" /\ RemoveLink(one, two)) =>
             \A pr \in JoinedPairs(nodes') :
                LET found == Web_find_route(nodes', pr[1], pr[2]) IN
                /\ found # None
                /\ Hops(found[1]) = Distance(nodes', pr[1], pr[2])]_vars

\* The number of ports over all nodes
RECURSIVE SumOfDegrees(_, _)
SumOfDegrees(n, S) ==
    IF S = {} THEN 0
    ELSE LET i == Min(S) IN Cardinality(DOMAIN n[i]) + SumOfDegrees(n, S \ {i})

\* C27: find_route and count_reachable terminate on every web, cyclic ones
\* and any routing cache included: every node is expanded by at most one
\* spider of a search, so the spiders ever enqueued are at most 1 plus the
\* sum of the node degrees.
C27_SearchesAreBounded ==
    \A src \in Ids :
       /\ Web_count_reachable_run(nodes, src).spawned
             <= 1 + SumOfDegrees(nodes, DOMAIN nodes)
       /\ \A dst \in Ids :
             Web_find_route_run(nodes, src, dst).spawned
                <= 1 + SumOfDegrees(nodes, DOMAIN nodes)

\* A flood of a cyclic web (three nodes linked in a ring) enqueued exactly
\* 1 plus the sum of the degrees.
C27_Witness ==
    /\ \E a, b, c \in DOMAIN nodes :
          /\ a # b /\ b # c /\ a # c
          /\ Linked(nodes, a, b) /\ Linked(nodes, b, c) /\ Linked(nodes, c, a)
          /\ Web_count_reachable_run(nodes, a).spawned
                = 1 + SumOfDegrees(nodes, DOMAIN nodes)
    /\ ~CacheEmpty(nodes)

---------------------------------------------------------------------------
(* find_all_routes: claims *)

\* The table a batch leaves when its searches complete in the given order
BatchOutcome(order) ==
    MarkPaths(fsnap, BatchPaths(fsnap, Idents(fsnap)[fidx], fgroup, order))

\* C30: in find_all_routes no mark_path writes the routing table while a
\* find_route of the current batch still runs, so every search of the batch
\* reads the table as it was when the batch was spawned; and once the batch
\* is applied the table is the one every completion order of its searches
\* leads to.
C30_BatchesReadOneSnapshot ==
    /\ (fpc = "batch" /\ frunning # {}) => fweb = fsnap
    /\ (fpc = "chunk" /\ fgroup # << >>) =>
          \A order \in Orders(fpar) : fweb = BatchOutcome(order)

\* A batch of two searches, the second of which completed first, both having
\* found a path, has been applied and has changed the table.
C30_Witness ==
    /\ fpc = "chunk"
    /\ ffinished = << 2, 1 >>
    /\ Len(BatchPaths(fsnap, Idents(fsnap)[fidx], fgroup, << 1, 2 >>)) = 2
    /\ BatchPaths(fsnap, Idents(fsnap)[fidx], fgroup, << 1, 2 >>)
          # BatchPaths(fsnap, Idents(fsnap)[fidx], fgroup, << 2, 1 >>)
    /\ fweb # fsnap

---------------------------------------------------------------------------
(* DisplayGrid::render: claims *)

\* The cells of the box from min to max in row-major order, each with its
\* logical coordinate and its offset from min
RowMajor(min, max) ==
    LET width  == max.x - min.x + 1
        height == max.y - min.y + 1
    IN  [k \in 1 .. (width * height) |->
           Cell(min.y + ((k - 1) \div width), min.x + ((k - 1) % width),
                (k - 1) \div width, (k - 1) % width)]

\* C21: whenever bounds_inclusive() answers a box (min, max), boxes one or
\* two cells wide or tall included, render completes and has called
\* print_cell exactly once for every cell of the box in row-major order with
\* the logical coordinate and the offset from min; when it answers None,
\* render calls print_cell zero times.
C21_RenderVisitsEveryCell ==
    rend # "idle" =>
       /\ rend = "ok"
       /\ rcalls = IF rbounds = None THEN << >>
                   ELSE RowMajor(rbounds[1][1], rbounds[1][2])

\* The same for the boxes more than two cells wide or tall that stay clear
\* of I::MAX and span less than the coordinate type's range.
RenderVisitsEveryCellOfLargerBoxes ==
    (/\ rend # "idle"
     /\ rbounds # None
     /\ rbounds[1][2].x < IntMax /\ rbounds[1][2].y < IntMax
     /\ rbounds[1][2].x - rbounds[1][1].x <= IntMax
     /\ rbounds[1][2].y - rbounds[1][1].y <= IntMax
     /\ MaxOf(rbounds[1][2].x - rbounds[1][1].x, rbounds[1][2].y - rbounds[1][1].y) > 1)
       => /\ rend = "ok"
          /\ rcalls = RowMajor(rbounds[1][1], rbounds[1][2])

---------------------------------------------------------------------------
(* Beams: claims *)

\* The beams that follow from a beam on a tile by the tile's rule: it turns,
\* and steps away or, at the side of a splitter, parts in two on the spot
Follows(hall, beam) ==
    LET turn == Tile_turn(hall[beam.pos], beam.dir) IN
    {b \in {IF turn.step THEN Beam_step(Beam_new(beam.pos, turn.dir))
                         ELSE Beam_new(beam.pos, turn.dir)}
            \cup {Beam_new(beam.pos, turn.other[i]) : i \in DOMAIN turn.other} :
        Hall_in_bounds(hall, b.pos)}

\* The beams reachable from the beams of S
RECURSIVE BeamClosure(_, _)
BeamClosure(hall, S) ==
    LET more == S \cup UNION {Follows(hall, b) : b \in S} IN
    IF more = S THEN S ELSE BeamClosure(hall, more)

\* The (tile, direction) pairs reachable from the starting beam
Lit(hall, beam) ==
    IF Hall_in_bounds(hall, beam.pos) THEN BeamClosure(hall, {beam}) ELSE {}

\* The (tile, direction) pairs marked in the BeamSets
Marked == {b \in [pos : DOMAIN blit, dir : Directions] : b.dir \in blit[b.pos]}

\* C22: when LightGrid::walk(beam) returns, every worker spawned into the
\* scope, directly or by another worker, has finished, and the marked
\* (tile, direction) pairs are exactly the pairs reachable from the starting
\* beam by the tile rules, whatever the interleaving of the workers was.
C22_WalkReturnsComplete ==
    bpc = "returned" =>
       /\ bwalkers = NoWalkers
       /\ Marked = Lit(bhall, bstart)

\* A walk in which a splitter spawned a worker has returned.
C22_Witness ==
    /\ bpc = "returned"
    /\ bid > 1
    /\ Cardinality(Marked) >= 4

\* C29: over all interleavings at most one worker passes the check of
\* BeamSet::insert for a given (tile, direction) pair, so one walk takes at
\* most 4 x (number of tiles) forward steps, and it terminates even when
\* mirrors and splitters lead a beam round in a cycle.
C29_OnePassPerMark ==
    /\ [](bpc # "idle" =>
            /\ \A pr \in DOMAIN bpassed : bpassed[pr] <= 1
            /\ bsteps <= 4 * Cardinality(DOMAIN bhall))
    /\ <>(bpc = "returned")

\* A walk has returned in which a splitter spawned a worker and a worker
\* stopped at a mark it found set, after four forward steps or more.
C29_Witness ==
    /\ bpc = "returned"
    /\ bid > 1
    /\ bmet > 0
    /\ bsteps >= 4

---------------------------------------------------------------------------
(* The town: claims *)

\* The least score with which a route the step rule can generate from the
\* Pathfinder reaches the end of the town, nothing being pruned
RECURSIVE Cheapest(_, _)
Cheapest(town, finder) ==
    IF finder.pos = Town_end(town) THEN finder.score
    ELSE LET steps == Pathfinder_steps(town, finder) IN
         Min({Score_MAX} \cup {Cheapest(town, steps[i]) : i \in DOMAIN steps})

\* The least score over the routes of both Pathfinders of part_1
CheapestRoute(town) ==
    Min({Cheapest(town, Pathfinder_new(Town_start(town), "East")),
         Cheapest(town, Pathfinder_new(Town_start(town), "South"))})

\* C23: when the scope of Coldtown::part_1 has joined, best_score is the
\* least total cost over all the routes from start to end that the step rule
\* of the Pathfinder can generate without pruning, in every interleaving of
\* the Pathfinder tasks.
C23_BestScoreIsCheapest ==
    cpc = "joined" => cbest = CheapestRoute(ctown)

====
